---- MODULE Spec2Model ----
(***************************************************************************)
(* Cloudcatcher: the inventory sync of the Flask/SQLite application        *)
(* (backend/app.py, backend/db.py) and of the FastAPI/MongoDB application  *)
(* (backend/server.py, backend/scheduler.py, backend/connectors.py).       *)
(***************************************************************************)
EXTENDS Integers, Sequences, FiniteSets, Bags, TLC

\* ------------------------------------------------------------------------
\* Bounds of the model
\* ------------------------------------------------------------------------
MaxSnapLen == 2      \* longest snapshot a connector call returns
MaxRuns == 2         \* sync runs started in one behaviour
MaxFaults == 2       \* failing store and connector calls in one behaviour

\* ------------------------------------------------------------------------
\* Generic helpers
\* ------------------------------------------------------------------------
BoundedSeq(S, n) == UNION {[1..k -> S] : k \in 0..n}

None == "None"

\* dict.get(key): the value, or None when the key is missing
Get(d, k) == IF k \in DOMAIN d THEN d[k] ELSE None

\* ========================================================================
\* Part 1: app.py / db.py  (Flask application, SQLite store)
\* ========================================================================
SyncProviders == <<"aws", "azure">>
Providers == {"aws", "azure"}
\* the instance ids the provider APIs of the model know
InstanceIds(p) == IF p = "aws" THEN {"i-1", "i-2"} ELSE {"vm-1"}
\* the states a record may carry: alertable ones, another one, and no state
States == {"running", "stopped", "pending", None}
AlertStates == {"running", "stopped"}
CredRegion == "r1"

\* the registry of connectors/__init__.py
Connectors == {"aws", "azure"}
get_connector_any(provider) == provider
get_connector(provider) == IF provider \in Connectors THEN provider ELSE None

\* connectors.py get_connector, lines 398-411: the class of the registry,
\* or ValueError("Unknown provider")
connectors == {"aws", "azure", "gcp", "do"}
connector_class(provider) == IF provider \in connectors THEN provider ELSE "ValueError"

\* one normalised instance as the connector of provider p returns it
Item(p, i, s) == [provider |-> p, instance_id |-> i, region |-> CredRegion, state |-> s]
ItemsOf(p) == {Item(p, i, s) : i \in InstanceIds(p), s \in States}
Snapshots(p) == BoundedSeq(ItemsOf(p), MaxSnapLen)

KeyOf(inst) == <<inst.provider, inst.instance_id, inst.region>>

\* db.get_instance_states: the dict key -> state of the rows of a provider
get_instance_states(tbl, provider) ==
    [k \in {q \in DOMAIN tbl : q[1] = provider} |-> tbl[k]]

\* db.upsert_instances: INSERT ... ON CONFLICT(provider, instance_id, region)
\* DO UPDATE, one statement per item in list order, one commit at the end
RECURSIVE upsert_from(_, _, _)
upsert_from(tbl, items, i) ==
    IF i > Len(items) THEN tbl
    ELSE LET k == KeyOf(items[i])
         IN upsert_from([q \in DOMAIN tbl \cup {k} |->
                            IF q = k THEN items[i].state ELSE tbl[q]],
                        items, i + 1)
upsert_instances(tbl, items) ==
    IF Len(items) = 0 THEN tbl ELSE upsert_from(tbl, items, 1)

\* db.list_instances(provider): the rows of a provider
list_instances(tbl, provider) == {k \in DOMAIN tbl : k[1] = provider}

\* run_sync, lines 105-117: the state changes of one fetched list
IsStateChange_anyNewState(prev_state, new_state) ==
    /\ prev_state # None
    /\ new_state # None
    /\ prev_state # new_state
    /\ prev_state \in AlertStates
IsStateChange(prev_state, new_state) ==
    /\ prev_state # None
    /\ new_state # None
    /\ prev_state # new_state
    /\ prev_state \in AlertStates
    /\ new_state \in AlertStates

RECURSIVE state_changes_from(_, _, _)
state_changes_from(existing_states, items, i) ==
    IF i > Len(items) THEN <<>>
    ELSE LET inst == items[i]
             prev_state == Get(existing_states, KeyOf(inst))
             new_state == inst.state
             rest == state_changes_from(existing_states, items, i + 1)
         IN IF IsStateChange(prev_state, new_state)
            THEN <<[inst |-> inst, prev_state |-> prev_state, new_state |-> new_state]>> \o rest
            ELSE rest
StateChanges_afterWrite(existing_states, items) ==
    state_changes_from(upsert_instances(existing_states, items), items, 1)
StateChanges(existing_states, items) == state_changes_from(existing_states, items, 1)

\* ------------------------------------------------------------------------
\* State
\* ------------------------------------------------------------------------
VARIABLES
    credentials,     \* db.credentials: the providers that have a row
    sql_instances,   \* db.instances: key (provider, instance_id, region) -> state
    sync_logs,       \* db.sync_logs: the rows in insertion order
    rs,              \* the run_sync activations: caller -> locals and position
    runs,            \* sync runs started so far
    accounts,        \* db.cloud_accounts: id -> document
    instances,       \* db.instances: cloud_account_id -> its documents, in insertion order
    recommendations, \* db.recommendations: cloud_account_id -> its documents
    audit_events,    \* db.audit_events: the documents (a bag: ids and times left out)
    sp,              \* the sync activations of server.py / scheduler.py
    faults,          \* store and connector calls that have failed so far
    skipped,         \* scheduler ticks dropped because the job was still running
    first_stored,    \* history: cloud_account_id -> (instance_id -> the first_seen_at
                     \* of the document that first stored that identity)
    closed,          \* history: (cloud_account_id, resource_id, rule_id) -> the status
                     \* update_recommendation last gave a recommendation of that key
    start,           \* history: the collections as the run under comparison found them
    reply,           \* the last HTTP response to a connect or create request
    listed,          \* the last connector listing: provider, the states the provider
                     \* API reported, the states of the normalised documents
    POLLING_STATE,   \* app.py line 29: running, last_run, last_error
    tokens_blacklist,   \* db.tokens_blacklist: the tokens of its documents
    issued,             \* the tokens that login and refresh have handed out
    clock,              \* datetime.now(timezone.utc), in seconds
    refresh_requests,   \* the POST /auth/refresh requests: position and locals
    used_tokens,        \* history: the tokens a refresh succeeded with or a
                        \* logout was given
    authenticated       \* the last get_current_user call: token and outcome

appVars == <<credentials, sql_instances, sync_logs, rs>>
srvVars == <<accounts, instances, recommendations, audit_events, sp, faults>>
authVars == <<tokens_blacklist, issued, clock, refresh_requests, used_tokens, authenticated>>
envVars == <<skipped, first_stored, closed, start, reply, listed, POLLING_STATE, authVars>>

\* datetime.now(timezone.utc): the clock, read as the number of runs started
\* so far; a later run reads a later time
now == runs

Callers == {"manual", "polling"}

Result(connected, count, error) == [connected |-> connected, count |-> count, error |-> error]
NoCount == -1
NoError == "-"

IdleRun == [pc |-> "idle", idx |-> 1, existing_states |-> <<>>, items |-> <<>>,
            state_changes |-> <<>>, sent |-> <<>>, results |-> <<>>, total |-> 0,
            logged |-> 0, log_failed |-> FALSE]

NoRunInFlight == \A c \in Callers : rs[c].pc = "idle"

\* connect_provider: stores the credentials of a provider
connect_provider(p) ==
    /\ NoRunInFlight
    /\ get_connector(p) # None
    /\ ~credentials[p]
    /\ credentials' = [credentials EXCEPT ![p] = TRUE]
    /\ UNCHANGED <<sql_instances, sync_logs, rs, runs, srvVars, envVars>>

\* POST /connect/<provider>, lines 157-186, the whole handler: the provider
\* is resolved first, then the body is validated, then the row is written
RequestProviders == {"aws", "azure", "gcp"}
Bodies == {"not json", "missing fields", "complete"}
NoReply == [code |-> 0, provider |-> None, error |-> None]
Reply(code, provider, error) == [code |-> code, provider |-> provider, error |-> error]
connect_provider_request(provider, data, ok) ==
    /\ NoRunInFlight
    /\ IF get_connector(provider) = None
       THEN /\ reply' = Reply(400, provider, "Unsupported provider")
            /\ UNCHANGED credentials
       ELSE IF data = "not json"
       THEN /\ reply' = Reply(400, provider, "Expected JSON body")
            /\ UNCHANGED credentials
       ELSE IF data = "missing fields"
       THEN /\ reply' = Reply(400, provider, "Missing fields")
            /\ UNCHANGED credentials
       ELSE IF ~ok
       THEN /\ reply' = Reply(500, provider, "persistence")
            /\ UNCHANGED credentials
       ELSE /\ reply' = Reply(200, provider, None)
            /\ credentials' = (provider :> TRUE) @@ credentials
    /\ UNCHANGED <<sql_instances, sync_logs, rs, runs, srvVars, skipped, first_stored, closed, start, listed, POLLING_STATE, authVars>>

\* run_sync is entered: sync_all ("manual") or polling_loop ("polling")
RunSyncStart(c, alone) ==
    /\ rs[c].pc = "idle"
    /\ alone => NoRunInFlight
    /\ runs < MaxRuns
    /\ runs' = runs + 1
    /\ rs' = [rs EXCEPT ![c] = [IdleRun EXCEPT !.pc = "read"]]
    /\ UNCHANGED <<credentials, sql_instances, sync_logs, srvVars, envVars>>

NextProvider(r) == IF r.idx = Len(SyncProviders) THEN "log" ELSE "read"

\* run_sync lines 92-101: the head of one loop iteration
RunSyncRead(c) ==
    LET r == rs[c]
        provider == SyncProviders[r.idx]
    IN /\ r.pc = "read"
       /\ \E ok \in BOOLEAN :
            IF ~ok
            THEN \* get_instance_states or get_credentials raises: outside the try
                 rs' = [rs EXCEPT ![c] = [IdleRun EXCEPT !.pc = "raised"]]
            ELSE LET r1 == [r EXCEPT !.existing_states = get_instance_states(sql_instances, provider),
                                     !.items = <<>>, !.state_changes = <<>>, !.sent = <<>>]
                 IN IF ~credentials[provider]
                    THEN rs' = [rs EXCEPT ![c] =
                                  [r1 EXCEPT !.results = (provider :> Result(FALSE, NoCount, NoError)) @@ r.results,
                                             !.pc = NextProvider(r),
                                             !.idx = r.idx + 1]]
                    ELSE IF get_connector(provider) = None
                    THEN rs' = [rs EXCEPT ![c] =
                                  [r1 EXCEPT !.results = (provider :> Result(TRUE, NoCount, "Connector not found")) @@ r.results,
                                             !.pc = NextProvider(r),
                                             !.idx = r.idx + 1]]
                    ELSE rs' = [rs EXCEPT ![c] = [r1 EXCEPT !.pc = "fetch"]]
       /\ UNCHANGED <<credentials, sql_instances, sync_logs, runs, srvVars, envVars>>

\* run_sync lines 104-117: connector.list_instances and the diff against
\* existing_states
RunSyncFetch(c) ==
    LET r == rs[c]
        provider == SyncProviders[r.idx]
    IN /\ r.pc = "fetch"
       /\ \/ \E items \in Snapshots(provider) :
               rs' = [rs EXCEPT ![c] =
                        [r EXCEPT !.items = items,
                                  !.state_changes = StateChanges(r.existing_states, items),
                                  !.pc = "persist"]]
          \/ \* the connector raises: line 128
             rs' = [rs EXCEPT ![c] =
                      [r EXCEPT !.results = (provider :> Result(TRUE, NoCount, "connector")) @@ r.results,
                                !.pc = NextProvider(r),
                                !.idx = r.idx + 1]]
       /\ UNCHANGED <<credentials, sql_instances, sync_logs, runs, srvVars, envVars>>

\* run_sync lines 119-129: upsert, one alert per state change, the result
RunSyncPersist(c) ==
    LET r == rs[c]
        provider == SyncProviders[r.idx]
    IN /\ r.pc = "persist"
       /\ \/ /\ sql_instances' = upsert_instances(sql_instances, r.items)
             /\ rs' = [rs EXCEPT ![c] =
                        [r EXCEPT !.sent = r.state_changes,
                                  !.results = (provider :> Result(TRUE, Len(r.items), NoError)) @@ r.results,
                                  !.total = r.total + Len(r.items),
                                  !.pc = NextProvider(r),
                                  !.idx = r.idx + 1]]
          \/ \* upsert_instances raises before its commit: line 128
             /\ rs' = [rs EXCEPT ![c] =
                        [r EXCEPT !.results = (provider :> Result(TRUE, NoCount, "persistence")) @@ r.results,
                                  !.pc = NextProvider(r),
                                  !.idx = r.idx + 1]]
             /\ UNCHANGED sql_instances
       /\ UNCHANGED <<credentials, sync_logs, runs, srvVars, envVars>>

\* db.insert_sync_log: one row, id from AUTOINCREMENT
insert_sync_log(logs, source, total) ==
    Append(logs, [id |-> Len(logs) + 1, source |-> source])

\* run_sync lines 131-137: the log row (failure swallowed) and the return
RunSyncLog(c) ==
    LET r == rs[c]
    IN /\ r.pc = "log"
       /\ \/ /\ sync_logs' = insert_sync_log(sync_logs, c, r.total)
             /\ rs' = [rs EXCEPT ![c] =
                        [IdleRun EXCEPT !.pc = "done", !.results = r.results, !.total = r.total,
                                        !.logged = 1]]
          \/ /\ rs' = [rs EXCEPT ![c] =
                        [IdleRun EXCEPT !.pc = "done", !.results = r.results, !.total = r.total,
                                        !.log_failed = TRUE]]
             /\ UNCHANGED sync_logs
       /\ UNCHANGED <<credentials, sql_instances, runs, srvVars, envVars>>

\* the caller takes the report (sync_all line 192) or the exception
\* (polling_loop line 146)
RunSyncReturn(c) ==
    /\ rs[c].pc \in {"done", "raised"}
    /\ rs' = [rs EXCEPT ![c] = IdleRun]
    /\ UNCHANGED <<credentials, sql_instances, sync_logs, runs, srvVars, envVars>>

\* db.list_sync_logs: SELECT * FROM sync_logs ORDER BY id DESC LIMIT ?
\* (a negative LIMIT is no limit in SQLite)
RECURSIVE order_by_id_asc(_)
order_by_id_asc(rows) ==
    IF rows = {} THEN <<>>
    ELSE LET lo == CHOOSE r \in rows : \A q \in rows : r.id <= q.id
         IN <<lo>> \o order_by_id_asc(rows \ {lo})
RECURSIVE order_by_id_desc(_)
order_by_id_desc(rows) ==
    IF rows = {} THEN <<>>
    ELSE LET hi == CHOOSE r \in rows : \A q \in rows : r.id >= q.id
         IN <<hi>> \o order_by_id_desc(rows \ {hi})
sql_limit(rows, limit) ==
    IF limit < 0 \/ limit >= Len(rows) THEN rows ELSE SubSeq(rows, 1, limit)
list_sync_logs_oldest(logs, limit) ==
    sql_limit(order_by_id_asc({logs[i] : i \in DOMAIN logs}), limit)
list_sync_logs(logs, limit) ==
    sql_limit(order_by_id_desc({logs[i] : i \in DOMAIN logs}), limit)

\* GET /sync/logs, app.py lines 219-227, the whole handler: the limit
\* argument is absent (100 is used), not an integer (400), or an integer,
\* which is brought into 1..500 before the query
DefaultLimit == 100
MaxLimit == 500
LimitValues == {-1, 0, 2, 600}
Absent == [kind |-> "absent", n |-> 0]
NotInteger == [kind |-> "text", n |-> 0]
Integer(n) == [kind |-> "int", n |-> n]
LimitArgs == {Absent, NotInteger} \cup {Integer(n) : n \in LimitValues}
Max2(x, y) == IF x >= y THEN x ELSE y
Min2(x, y) == IF x <= y THEN x ELSE y
\* the reply, with the argument it answers and the table it was read from
LogsReply(code, arg, stored, items) ==
    [code |-> code, arg |-> arg, stored |-> stored, count |-> Len(items), items |-> items]
sync_logs_request(arg) ==
    /\ IF arg.kind = "text"
       THEN reply' = LogsReply(400, arg, sync_logs, <<>>)
       ELSE LET given == IF arg.kind = "absent" THEN DefaultLimit ELSE arg.n
                limit == Max2(1, Min2(given, MaxLimit))
            IN reply' = LogsReply(200, arg, sync_logs, list_sync_logs(sync_logs, limit))
    /\ UNCHANGED <<credentials, sql_instances, sync_logs, rs, runs, srvVars, skipped, first_stored, closed, start, listed, POLLING_STATE, authVars>>

\* polling_loop, app.py lines 140-149: the thread marks itself running, then
\* forever: run_sync("polling") inside try/except, last_error and last_run
\* recorded, sleep
NeverRun == -1
NotRunning == [running |-> FALSE, last_run |-> NeverRun, last_error |-> None]
polling_loop_start ==
    /\ POLLING_STATE = NotRunning       \* line 236: started once, with the process
    /\ DOMAIN accounts = {}
    /\ POLLING_STATE' = [POLLING_STATE EXCEPT !.running = TRUE]
    /\ UNCHANGED <<runs, appVars, srvVars, skipped, first_stored, closed, start, reply, listed, authVars>>
\* line 144: the next iteration enters run_sync
polling_loop_run ==
    /\ POLLING_STATE.running
    /\ RunSyncStart("polling", TRUE)
\* lines 145-149: run_sync returned or raised
polling_loop_stops ==
    /\ rs["polling"].pc \in {"done", "raised"}
    /\ rs' = [rs EXCEPT !["polling"] = IdleRun]
    /\ POLLING_STATE' =
          IF rs["polling"].pc = "raised"
          THEN [running |-> FALSE, last_run |-> POLLING_STATE.last_run, last_error |-> "exc"]
          ELSE [running |-> TRUE, last_run |-> now, last_error |-> None]
    /\ UNCHANGED <<credentials, sql_instances, sync_logs, runs, srvVars, skipped, first_stored, closed, start, reply, listed, authVars>>
polling_loop_next ==
    /\ rs["polling"].pc \in {"done", "raised"}
    /\ rs' = [rs EXCEPT !["polling"] = IdleRun]
    /\ POLLING_STATE' =
          [running |-> TRUE, last_run |-> now,
           last_error |-> IF rs["polling"].pc = "raised" THEN "exc" ELSE None]
    /\ UNCHANGED <<credentials, sql_instances, sync_logs, runs, srvVars, skipped, first_stored, closed, start, reply, listed, authVars>>

\* ========================================================================
\* auth.py: JWT tokens, refresh, logout, get_current_user
\* ========================================================================
ACCESS_TOKEN_EXPIRE_MINUTES == 15
REFRESH_TOKEN_EXPIRE_DAYS == 7
MaxClock == 1        \* seconds that pass in one behaviour
UserId == "usr_1"

\* jwt.encode of the claims: a token is its claims (the signature is a
\* function of them), so two tokens of one user and type created in the same
\* second are the same token
create_access_token(user_id, t) ==
    [type |-> "access", sub |-> user_id, exp |-> t + ACCESS_TOKEN_EXPIRE_MINUTES * 60]
create_refresh_token(user_id, t) ==
    [type |-> "refresh", sub |-> user_id, exp |-> t + REFRESH_TOKEN_EXPIRE_DAYS * 86400]
\* an access token issued more than 15 minutes before the first second
ExpiredAccess == create_access_token(UserId, 0 - ACCESS_TOKEN_EXPIRE_MINUTES * 60 - 1)
NoToken == [type |-> "none", sub |-> None, exp |-> 0]

\* decode_token, lines 113-119: jwt.decode checks signature and exp
decode_token(token, t) ==
    IF token.type \in {"access", "refresh"} /\ token.exp >= t THEN token ELSE NoToken

InitAuth ==
    /\ tokens_blacklist = {}
    /\ issued = {}
    /\ clock = 0
    /\ refresh_requests = [q \in {"r1", "r2"} |-> [pc |-> "idle", token |-> NoToken, new |-> {}, code |-> 0, detail |-> None]]
    /\ used_tokens = {}
    /\ authenticated = [token |-> NoToken, user |-> None]

RefreshRequests == DOMAIN refresh_requests
nonAuth == <<runs, appVars, srvVars, skipped, first_stored, closed, start, reply, listed, POLLING_STATE>>

Tick ==
    /\ clock < MaxClock
    /\ clock' = clock + 1
    /\ UNCHANGED <<nonAuth, tokens_blacklist, issued, refresh_requests, used_tokens, authenticated>>

\* AuthService.login, lines 199-238, for the registered user with the right
\* password
login ==
    /\ issued' = issued \cup {create_access_token(UserId, clock), create_refresh_token(UserId, clock)}
    /\ issued' # issued
    /\ UNCHANGED <<nonAuth, tokens_blacklist, clock, refresh_requests, used_tokens, authenticated>>

Rejected(r, detail) == [r EXCEPT !.pc = "done", !.code = 401, !.detail = detail]

\* refresh_tokens lines 242-251: decode, the type, the blacklist lookup
RefreshCheck(q, token) ==
    LET r == [refresh_requests[q] EXCEPT !.token = token]
        payload == decode_token(token, clock)
    IN /\ refresh_requests[q].pc = "idle"
       /\ refresh_requests' = [refresh_requests EXCEPT ![q] =
             IF payload = NoToken THEN Rejected(r, "Invalid token")
             ELSE IF payload.type # "refresh" THEN Rejected(r, "Invalid token type")
             ELSE IF token \in tokens_blacklist THEN Rejected(r, "Token has been revoked")
             ELSE [r EXCEPT !.pc = "user"]]
       /\ UNCHANGED <<nonAuth, tokens_blacklist, issued, clock, used_tokens, authenticated>>

\* lines 253-265: the user is read and the new tokens are created
RefreshUser(q) ==
    LET r == refresh_requests[q]
    IN /\ r.pc = "user"
       /\ refresh_requests' = [refresh_requests EXCEPT ![q] =
             [r EXCEPT !.pc = "blacklist",
                       !.new = {create_access_token(r.token.sub, clock), create_refresh_token(r.token.sub, clock)}]]
       /\ UNCHANGED <<nonAuth, tokens_blacklist, issued, clock, used_tokens, authenticated>>

\* lines 267-278: the old token is blacklisted and the new ones returned
RefreshBlacklist(q, oks) ==
    LET r == refresh_requests[q]
    IN /\ r.pc = "blacklist"
       /\ \E ok \in oks :
            IF ok
            THEN /\ tokens_blacklist' = tokens_blacklist \cup {r.token}
                 /\ issued' = issued \cup r.new
                 /\ used_tokens' = used_tokens \cup {r.token}
                 /\ refresh_requests' = [refresh_requests EXCEPT ![q] = [r EXCEPT !.pc = "done", !.code = 200]]
            ELSE /\ refresh_requests' = [refresh_requests EXCEPT ![q] =
                        [r EXCEPT !.pc = "done", !.code = 500, !.new = {}]]
                 /\ UNCHANGED <<tokens_blacklist, issued, used_tokens>>
       /\ UNCHANGED <<nonAuth, clock, authenticated>>

RefreshReturn(q) ==
    /\ refresh_requests[q].pc = "done"
    /\ refresh_requests' = [refresh_requests EXCEPT ![q] =
          [pc |-> "idle", token |-> NoToken, new |-> {}, code |-> 0, detail |-> None]]
    /\ UNCHANGED <<nonAuth, tokens_blacklist, issued, clock, used_tokens, authenticated>>

\* AuthService.logout, lines 283-303, called by logout_user with the bearer
\* token and the optional refresh token: everything sits in one try whose
\* bare except returns success
logout(access_token, refresh_token, ok1, ok2) ==
    LET first == decode_token(access_token, clock) # NoToken /\ ok1
        second == /\ first
                  /\ refresh_token # NoToken
                  /\ decode_token(refresh_token, clock) # NoToken
                  /\ ok2
    IN /\ tokens_blacklist' = tokens_blacklist
                                 \cup (IF first THEN {access_token} ELSE {})
                                 \cup (IF second THEN {refresh_token} ELSE {})
       /\ used_tokens' = used_tokens \cup ({access_token, refresh_token} \ {NoToken})
       /\ used_tokens' # used_tokens
       /\ UNCHANGED <<nonAuth, issued, clock, refresh_requests, authenticated>>

\* get_current_user, lines 373-400
get_current_user(token) ==
    LET payload == decode_token(token, clock)
    IN /\ authenticated' = [token |-> token,
                            user |-> IF payload # NoToken /\ payload.type = "access"
                                     THEN payload.sub ELSE None]
       /\ UNCHANGED <<nonAuth, tokens_blacklist, issued, clock, refresh_requests, used_tokens>>

\* ========================================================================
\* Part 2: server.py / scheduler.py / connectors.py  (FastAPI, MongoDB)
\* ========================================================================
AccountIds == {"a1", "a2"}
AccountOrder == <<"a1", "a2">>
ProviderOf(a) == IF a = "a1" THEN "aws" ELSE "do"
DocIds(a) == IF a = "a1" THEN {"i-1"} ELSE {"d-1"}
DocStates == {"running", "stopped"}

\* one instance as the provider's API reports it: identity and state
Doc(a, i, s) == [cloud_account_id |-> a, instance_id |-> i, state |-> s]
DocSnapshots(a) == BoundedSeq({Doc(a, i, s) : i \in DocIds(a), s \in DocStates}, MaxSnapLen)

\* connectors.py lines 62-86 (and 364-387, generate_mock_instances 274-296):
\* the normalised document built from a reported instance; first_seen_at is
\* datetime.now() of the fetch, whether or not the identity is already stored
normalized(doc, t) ==
    [cloud_account_id |-> doc.cloud_account_id, instance_id |-> doc.instance_id,
     state |-> doc.state, first_seen_at |-> t]
normalized_list(snap, t) == [j \in 1..Len(snap) |-> normalized(snap[j], t)]

\* the state maps of connectors.py: Azure lines 154-161, GCP lines 251-259,
\* DigitalOcean lines 347-352; AWS (line 72) has none
state_map ==
    [azure |-> ("running" :> "running") @@ ("deallocated" :> "stopped") @@ ("stopped" :> "stopped")
               @@ ("starting" :> "pending") @@ ("stopping" :> "pending") @@ ("deallocating" :> "pending"),
     gcp   |-> ("RUNNING" :> "running") @@ ("TERMINATED" :> "terminated") @@ ("STOPPED" :> "stopped")
               @@ ("STAGING" :> "pending") @@ ("PROVISIONING" :> "pending")
               @@ ("SUSPENDING" :> "pending") @@ ("SUSPENDED" :> "stopped"),
     do    |-> ("active" :> "running") @@ ("off" :> "stopped") @@ ("new" :> "pending")
               @@ ("archive" :> "terminated"),
     aws   |-> <<>>]

\* the states the provider APIs of the model report: the mapped ones and
\* some that the maps do not know
NativeStates ==
    [azure |-> DOMAIN state_map.azure \cup {"unknown", "Hibernated"},
     gcp   |-> DOMAIN state_map.gcp \cup {"REPAIRING", "STOPPING"},
     do    |-> DOMAIN state_map.do \cup {"Locked"},
     aws   |-> {"running", "stopped", "shutting-down"}]

\* str.lower() on the states of the model
lower(str) ==
    CASE str = "REPAIRING" -> "repairing"
      [] str = "STOPPING" -> "stopping"
      [] str = "Hibernated" -> "hibernated"
      [] str = "Locked" -> "locked"
      [] OTHER -> str

\* the "state" of a normalised document: Azure line 170 and DigitalOcean
\* line 371 fall back to the reported state, GCP line 278 to its lower case
canonical_state(provider, native) ==
    IF native \in DOMAIN state_map[provider] THEN state_map[provider][native]
    ELSE IF provider = "gcp" THEN lower(native)
    ELSE native

\* connector.list_instances seen as a function of what the provider's API
\* reports: one normalised state per reported instance, in order
NoListing == [provider |-> None, reported |-> <<>>, states |-> <<>>]
list_instances_call(provider, reported) ==
    /\ listed' = [provider |-> provider, reported |-> reported,
                  states |-> [i \in 1..Len(reported) |-> canonical_state(provider, reported[i])]]
    /\ UNCHANGED <<runs, appVars, srvVars, skipped, first_stored, closed, start, reply, POLLING_STATE, authVars>>

\* the instances that have a public_ip and the tag environment = production
PublicProduction == {"i-1"}

\* server.generate_recommendations: rule FINOPS-001 (a stopped instance,
\* severity medium) and rule SECOPS-001 (an instance with a public_ip,
\* severity high when tags.environment is production)
RECURSIVE recommendations_from(_, _)
recommendations_from(insts, i) ==
    IF i > Len(insts) THEN <<>>
    ELSE (IF insts[i].state = "stopped"
          THEN <<[cloud_account_id |-> insts[i].cloud_account_id,
                  resource_id |-> insts[i].instance_id,
                  rule_id |-> "FINOPS-001", severity |-> "medium", status |-> "open"]>>
          ELSE <<>>)
         \o (IF insts[i].instance_id \in PublicProduction
             THEN <<[cloud_account_id |-> insts[i].cloud_account_id,
                     resource_id |-> insts[i].instance_id,
                     rule_id |-> "SECOPS-001", severity |-> "high", status |-> "open"]>>
             ELSE <<>>)
         \o recommendations_from(insts, i + 1)
generate_recommendations(insts) == recommendations_from(insts, 1)

\* db.<collection>.insert_one(doc)
insert_one(coll, doc) == coll (+) SetToBag({doc})

\* the activations: the request handler of POST /sync and the instances of
\* the scheduler job "scheduled_sync"
\* and the request handler of POST /sync/{account_id}
SyncProcs == {"api", "sched", "sched2", "single", "single2"}
\* the activations whose caller is an HTTP client
Handlers == {"api", "single", "single2"}
\* the activations of sync_single_account
Singles == {"single", "single2"}
JobSlots == {"sched", "sched2"}
Triggers == {"api", "sched"}

IdleSync == [pc |-> "idle", accounts |-> <<>>, k |-> 1, instances |-> <<>>,
             total_instances |-> 0, total_recommendations |-> 0, errors |-> <<>>,
             e |-> None, fetched |-> <<>>, logged |-> 0, log_failed |-> FALSE,
             notified |-> FALSE, attempted |-> {}, undelivered |-> {},
             returned |-> "none", success |-> FALSE, accounts_synced |-> 0,
             instances_found |-> 0]

NoSyncInFlight == \A p \in SyncProcs : sp[p].pc = "idle"

\* create_cloud_account
create_cloud_account(a) ==
    /\ NoSyncInFlight
    /\ a \notin DOMAIN accounts
    /\ accounts' = (a :> [status |-> "connected", last_error |-> None, instance_count |-> 0]) @@ accounts
    /\ audit_events' = insert_one(audit_events, [event_type |-> "cloud_account.created", accounts_synced |-> 0])
    /\ UNCHANGED <<instances, recommendations, sp, runs, faults, appVars, envVars>>

\* POST /cloud-accounts, lines 695-711, the whole handler with its request
\* body: the credentials dict goes into the document as it came (encrypted),
\* whatever fields it has; then insert_one, then the audit event
CreateOutcomes == {"ok", "insert fails", "audit fails"}
CreateReply(code, a, data) ==
    [code |-> code, provider |-> ProviderOf(a), error |-> None, account |-> a, body |-> data]
create_cloud_account_request(a, data, outcome) ==
    /\ NoSyncInFlight
    /\ a \notin DOMAIN accounts
    /\ IF outcome = "insert fails"
       THEN UNCHANGED accounts
       ELSE accounts' = (a :> [status |-> "connected", last_error |-> None, instance_count |-> 0]) @@ accounts
    /\ IF outcome = "ok"
       THEN audit_events' = insert_one(audit_events, [event_type |-> "cloud_account.created", accounts_synced |-> 0])
       ELSE UNCHANGED audit_events
    /\ reply' = CreateReply(IF outcome = "ok" THEN 200 ELSE 500, a, data)
    /\ UNCHANGED <<instances, recommendations, sp, runs, faults, appVars, skipped, first_stored, closed, start, listed, POLLING_STATE, authVars>>

\* find({"status": {"$ne": "disabled"}}).to_list(100)
EnabledAccounts == SelectSeq(AccountOrder,
                             LAMBDA a : a \in DOMAIN accounts /\ accounts[a].status # "disabled")

\* update_one({"id": a}, {"$set": fields}): no document, no change
SetStatus(accts, a, status, err, count) ==
    IF a \in DOMAIN accts
    THEN [accts EXCEPT ![a] = [status |-> status, last_error |-> err, instance_count |-> count]]
    ELSE accts

Current(r) == r.accounts[r.k]

\* the outcomes a call may have: it succeeds, or it raises
Outcomes(oks) == IF faults < MaxFaults THEN oks ELSE oks \ {FALSE}
Faults(ok) == IF ok THEN faults ELSE faults + 1

\* an exception inside the per-account try: control goes to the except clause
Raise(r, step, msg) ==
    [r EXCEPT !.pc = "handler", !.e = msg]

\* an exception outside the per-account try: sync_all_accounts lets it escape
\* to the framework, scheduled_sync_job logs it in its outer except clause
Escape(p, r) ==
    [r EXCEPT !.pc = "done", !.returned = IF p \in Handlers THEN "exception" ELSE "aborted",
              !.instances = <<>>]

\* the loop goes on to the next account, or leaves
Advance(r) ==
    [r EXCEPT !.k = r.k + 1, !.instances = <<>>, !.e = None,
              !.pc = IF r.k = Len(r.accounts) THEN "completed" ELSE "mark"]

\* sync_single_account lines 902-920: the account is done, the report is
\* returned; in the other two the loop goes on
Finish_notCounted(p, r) ==
    IF p \in Singles
    THEN [r EXCEPT !.pc = "done", !.returned = "report", !.success = TRUE,
                   !.accounts_synced = 1, !.instances_found = 0,
                   !.instances = <<>>]
    ELSE Advance(r)
Finish(p, r) ==
    IF p \in Singles
    THEN [r EXCEPT !.pc = "done", !.returned = "report", !.success = TRUE,
                   !.accounts_synced = 1, !.instances_found = Len(r.instances),
                   !.instances = <<>>]
    ELSE Advance([r EXCEPT !.total_instances = r.total_instances + Len(r.instances)])

\* sync_all_accounts lines 776-791 / scheduled_sync_job lines 52-62: the
\* accounts to sync are read once, before the loop
SyncLoadStep(p, alone, oks) ==
    LET r == sp[p]
        accts == EnabledAccounts
    IN /\ r.pc = "idle"
       /\ alone => NoSyncInFlight
       /\ runs < MaxRuns
       /\ runs' = runs + 1
       /\ \E ok \in Outcomes(oks) :
            /\ faults' = Faults(ok)
            /\ sp' = [sp EXCEPT ![p] =
                       IF ~ok THEN Escape(p, r)
                       ELSE IF Len(accts) = 0
                       THEN [r EXCEPT !.pc = "done",
                                      !.returned = IF p = "api" THEN "report" ELSE "nothing",
                                      !.success = TRUE, !.accounts_synced = 0,
                                      !.instances_found = 0,
                                      !.errors = IF p = "api"
                                                 THEN <<[account |-> None, msg |-> "No cloud accounts configured"]>>
                                                 ELSE <<>>]
                       ELSE [r EXCEPT !.accounts = accts, !.k = 1,
                                      !.pc = IF p = "api" THEN "started" ELSE "mark"]]
       /\ UNCHANGED <<accounts, instances, recommendations, audit_events, appVars>>
SyncLoad(p, alone, oks) == SyncLoadStep(p, alone, oks) /\ UNCHANGED envVars

\* sync_single_account lines 879-881: find_one, 404 for an unknown account
SingleLoadAt(p, a, alone, oks) ==
    LET r == sp[p]
    IN /\ r.pc = "idle"
       /\ alone => NoSyncInFlight
       /\ runs < MaxRuns
       /\ runs' = runs + 1
       /\ \E ok \in Outcomes(oks) :
            /\ faults' = Faults(ok)
            /\ sp' = [sp EXCEPT ![p] =
                       IF ~ok \/ a \notin DOMAIN accounts
                       THEN Escape(p, r)
                       ELSE [r EXCEPT !.accounts = <<a>>, !.k = 1, !.pc = "mark"]]
       /\ UNCHANGED <<accounts, instances, recommendations, audit_events, appVars, envVars>>
SingleLoad(a, oks) == SingleLoadAt("single", a, TRUE, oks)

\* a sync has marked account a syncing and has not yet written its outcome
InFlight(p, a) ==
    /\ sp[p].pc \in {"fetch", "del_inst", "ins_inst", "del_recs", "ins_recs", "connected", "handler"}
    /\ Current(sp[p]) = a

\* update_cloud_account with status in the body (lines 739-751)
update_cloud_account_request(a, status) ==
    /\ a \in DOMAIN accounts
    /\ accounts[a].status # status
    /\ accounts' = [accounts EXCEPT ![a].status = status]
    /\ audit_events' = insert_one(audit_events, [event_type |-> "cloud_account.updated", accounts_synced |-> 0])
    /\ UNCHANGED <<instances, recommendations, sp, faults, runs, appVars, envVars>>
\* the request served while no sync is in flight
update_cloud_account(a, status) ==
    /\ NoSyncInFlight
    /\ update_cloud_account_request(a, status)

\* sync_all_accounts line 791: log_audit_event("sync.started")
SyncLogStarted(p, oks) ==
    LET r == sp[p]
    IN /\ r.pc = "started"
       /\ \E ok \in Outcomes(oks) :
            /\ faults' = Faults(ok)
            /\ IF ok
               THEN /\ audit_events' = insert_one(audit_events, [event_type |-> "sync.started", accounts_synced |-> 0])
                    /\ sp' = [sp EXCEPT ![p] = [r EXCEPT !.pc = "mark"]]
               ELSE /\ sp' = [sp EXCEPT ![p] = Escape(p, r)]
                    /\ UNCHANGED audit_events
       /\ UNCHANGED <<accounts, instances, recommendations, runs, appVars, envVars>>

\* lines 796-799 / 67-73: status := syncing
SyncMark(p, oks) ==
    LET r == sp[p]
    IN /\ r.pc = "mark"
       /\ \E ok \in Outcomes(oks) :
            /\ faults' = Faults(ok)
            /\ IF ok
               THEN /\ accounts' = IF Current(r) \in DOMAIN accounts
                                   THEN [accounts EXCEPT ![Current(r)].status = "syncing"]
                                   ELSE accounts
                    /\ sp' = [sp EXCEPT ![p] = [r EXCEPT !.pc = "fetch"]]
               ELSE /\ sp' = [sp EXCEPT ![p] = Raise(r, "mark", "persistence")]
                    /\ UNCHANGED accounts
       /\ UNCHANGED <<instances, recommendations, audit_events, runs, appVars, envVars>>

\* generate_mock_instances(account_id, provider, count) with count from
\* random.randint(3, 10): a non-empty list, every instance_id a fresh uuid
MockIds == {"i-mock1", "i-mock2"}
MockSnapshots(a) ==
    {snap \in BoundedSeq({Doc(a, i, st) : i \in MockIds, st \in DocStates}, MaxSnapLen) :
        /\ Len(snap) > 0
        /\ \A i, j \in 1..Len(snap) : snap[i].instance_id = snap[j].instance_id => i = j}

\* lines 802-807 / 76-81: connectors.fetch_instances;
\* sync_single_account lines 889-891: generate_mock_instances
SyncFetch(p, oks) ==
    LET r == sp[p]
    IN /\ r.pc = "fetch"
       /\ \/ /\ \E snap \in (IF p \in Singles THEN MockSnapshots(Current(r))
                                ELSE DocSnapshots(Current(r))) :
                  LET docs == normalized_list(snap, now)
                  IN sp' = [sp EXCEPT ![p] =
                              IF p \notin Singles /\ connector_class(ProviderOf(Current(r))) = "ValueError"
                              THEN Raise(r, "fetch", "Unknown provider")
                              ELSE [r EXCEPT !.instances = docs, !.pc = "del_inst",
                                             !.fetched = (Current(r) :> docs) @@ r.fetched]]
             /\ UNCHANGED faults
          \/ /\ p \notin Singles
             /\ FALSE \in Outcomes(oks)
             /\ faults' = Faults(FALSE)
             /\ sp' = [sp EXCEPT ![p] = Raise(r, "fetch", "connector")]
       /\ UNCHANGED <<accounts, instances, recommendations, audit_events, runs, appVars, envVars>>

\* delete_many({"cloud_account_id": id}): the documents of that account go
delete_many_all(coll, a) == [b \in DOMAIN coll |-> <<>>]
delete_many_none(coll, a) == coll
delete_many(coll, a) == [coll EXCEPT ![a] = <<>>]

\* DELETE /cloud-accounts/{account_id}, lines 753-769, the whole handler with
\* its awaits run back to back: the account's instances, its
\* recommendations, the account document, the audit event
Without(f, a) == [x \in DOMAIN f \ {a} |-> f[x]]
delete_cloud_account(a) ==
    /\ a \in DOMAIN accounts
    /\ instances' = delete_many(instances, a)
    /\ recommendations' = delete_many(recommendations, a)
    /\ accounts' = Without(accounts, a)
    /\ audit_events' = insert_one(audit_events, [event_type |-> "cloud_account.deleted", accounts_synced |-> 0])
    /\ UNCHANGED <<sp, faults, runs, appVars, envVars>>

\* lines 810 / 84: instances.delete_many({"cloud_account_id": id})
SyncDeleteInstances(p, oks) ==
    LET r == sp[p]
    IN /\ r.pc = "del_inst"
       /\ \E ok \in Outcomes(oks) :
            /\ faults' = Faults(ok)
            /\ IF ok
               THEN /\ instances' = delete_many(instances, Current(r))
                    /\ sp' = [sp EXCEPT ![p] =
                                [r EXCEPT !.pc = IF Len(r.instances) = 0 THEN "del_recs" ELSE "ins_inst"]]
               ELSE /\ sp' = [sp EXCEPT ![p] = Raise(r, "del_inst", "persistence")]
                    /\ UNCHANGED instances
       /\ UNCHANGED <<accounts, recommendations, audit_events, runs, appVars, envVars>>

\* db.instances.insert_many(docs): every document becomes a new document of
\* the collection (the collection has no unique index)
insert_many(coll, docs) == coll \o docs

\* the first_seen_at each identity had when a document of it was first
\* inserted: documents are taken in insertion order, a known identity is kept
RECURSIVE FirstStored(_, _, _)
FirstStored(seen, docs, i) ==
    IF i > Len(docs) THEN seen
    ELSE FirstStored(IF docs[i].instance_id \in DOMAIN seen THEN seen
                     ELSE (docs[i].instance_id :> docs[i].first_seen_at) @@ seen,
                     docs, i + 1)

\* lines 813-814 / 87-88: insert_many(instances); an ordered insert that
\* fails has inserted the documents before the failing one
SyncInsertInstances(p, oks) ==
    LET r == sp[p]
        a == Current(r)
    IN /\ r.pc = "ins_inst"
       /\ \/ /\ instances' = [instances EXCEPT ![a] = insert_many(instances[a], r.instances)]
             /\ first_stored' = [first_stored EXCEPT ![a] = FirstStored(@, r.instances, 1)]
             /\ sp' = [sp EXCEPT ![p] = [r EXCEPT !.pc = "del_recs"]]
             /\ UNCHANGED faults
          \/ /\ FALSE \in Outcomes(oks)
             /\ faults' = Faults(FALSE)
             /\ \E n \in 0..(Len(r.instances) - 1) :
                  /\ instances' = [instances EXCEPT ![a] = insert_many(instances[a], SubSeq(r.instances, 1, n))]
                  /\ first_stored' = [first_stored EXCEPT ![a] = FirstStored(@, SubSeq(r.instances, 1, n), 1)]
             /\ sp' = [sp EXCEPT ![p] = Raise(r, "ins_inst", "persistence")]
       /\ UNCHANGED <<accounts, recommendations, audit_events, runs, appVars, skipped, closed, start, reply, listed, POLLING_STATE, authVars>>

\* lines 817-820 / 91-94: generate_recommendations, then delete_many
SyncDeleteRecs(p, oks) ==
    LET r == sp[p]
    IN /\ r.pc = "del_recs"
       /\ \E ok \in Outcomes(oks) :
            /\ faults' = Faults(ok)
            /\ IF ok
               THEN /\ recommendations' = delete_many(recommendations, Current(r))
                    /\ sp' = [sp EXCEPT ![p] =
                                [r EXCEPT !.pc = IF Len(generate_recommendations(r.instances)) = 0
                                                 THEN "connected" ELSE "ins_recs"]]
               ELSE /\ sp' = [sp EXCEPT ![p] = Raise(r, "del_recs", "persistence")]
                    /\ UNCHANGED recommendations
       /\ UNCHANGED <<accounts, instances, audit_events, runs, appVars, envVars>>

\* lines 823-825 / 97-99: insert_many(recommendations)
SyncInsertRecs(p, oks) ==
    LET r == sp[p]
        a == Current(r)
        recs == generate_recommendations(r.instances)
    IN /\ r.pc = "ins_recs"
       /\ \/ /\ recommendations' = [recommendations EXCEPT ![a] = insert_many(recommendations[a], recs)]
             /\ sp' = [sp EXCEPT ![p] =
                        [r EXCEPT !.pc = "connected",
                                  !.total_recommendations = r.total_recommendations + Len(recs)]]
             /\ UNCHANGED faults
          \/ /\ FALSE \in Outcomes(oks)
             /\ faults' = Faults(FALSE)
             /\ \E n \in 0..(Len(recs) - 1) :
                  recommendations' = [recommendations EXCEPT ![a] = insert_many(recommendations[a], SubSeq(recs, 1, n))]
             /\ sp' = [sp EXCEPT ![p] = Raise(r, "ins_recs", "persistence")]
       /\ UNCHANGED <<accounts, instances, audit_events, runs, appVars, envVars>>

\* lines 828-841 / 102-113: status := connected, instance_count
SyncMarkConnected(p, oks) ==
    LET r == sp[p]
    IN /\ r.pc = "connected"
       /\ \E ok \in Outcomes(oks) :
            /\ faults' = Faults(ok)
            /\ IF ok
               THEN /\ accounts' = SetStatus(accounts, Current(r), "connected", None, Len(r.instances))
                    /\ sp' = [sp EXCEPT ![p] = Finish(p, r)]
               ELSE /\ sp' = [sp EXCEPT ![p] = Raise(r, "connected", "persistence")]
                    /\ UNCHANGED accounts
       /\ UNCHANGED <<instances, recommendations, audit_events, runs, appVars, envVars>>

\* lines 843-849 / 115-126: the except clause of one account
SyncHandler(p, oks) ==
    LET r == sp[p]
        r1 == IF p \in Singles THEN r
              ELSE [r EXCEPT !.errors = Append(r.errors, [account |-> Current(r), msg |-> r.e])]
    IN /\ r.pc = "handler"
       /\ \E ok \in Outcomes(oks) :
            /\ faults' = Faults(ok)
            /\ IF ok
               THEN /\ accounts' = IF Current(r) \in DOMAIN accounts
                                   THEN [accounts EXCEPT ![Current(r)].status = "error",
                                                         ![Current(r)].last_error = r.e]
                                   ELSE accounts
                    /\ sp' = [sp EXCEPT ![p] =
                                IF p \in Singles
                                THEN Escape(p, r1)   \* line 927: raise HTTPException(500)
                                ELSE Advance(r1)]
               ELSE \* the update_one of the except clause raises
                    /\ sp' = [sp EXCEPT ![p] = Escape(p, r1)]
                    /\ UNCHANGED accounts
       /\ UNCHANGED <<instances, recommendations, audit_events, runs, appVars, envVars>>

\* lines 851-856 / 129-139: log_audit_event("sync.completed"). The job of
\* scheduler.py imports log_audit_event from server (line 46) and calls it
\* with db as first argument (lines 129-139), so its event document carries
\* the database handle as event_type; whether the store accepts the document
\* is left open here like any other outcome of insert_one.
SyncLogCompleted(p, oks) ==
    LET r == sp[p]
        event == [event_type |-> IF p = "api" THEN "sync.completed" ELSE "scheduled_sync.completed",
                  accounts_synced |-> Len(r.accounts) - Len(r.errors)]
    IN /\ r.pc = "completed"
       /\ \E ok \in Outcomes(oks) :
            /\ faults' = Faults(ok)
            /\ IF ok
               THEN /\ audit_events' = insert_one(audit_events, event)
                    /\ sp' = [sp EXCEPT ![p] = [r EXCEPT !.pc = "notify", !.logged = r.logged + 1]]
               ELSE /\ sp' = [sp EXCEPT ![p] = Escape(p, [r EXCEPT !.log_failed = TRUE])]
                    /\ UNCHANGED audit_events
       /\ UNCHANGED <<accounts, instances, recommendations, runs, appVars, envVars>>

\* lines 858-874: the WebSocket broadcast (send errors are swallowed in
\* WebSocketManager.broadcast) and the SyncResult;
\* scheduler lines 148-152 / 166-171: db.recommendations.find of the open
\* recommendations of high severity
HighSeverityOpen ==
    \E a \in AccountIds : \E i \in 1..Len(recommendations[a]) :
        recommendations[a][i].severity = "high" /\ recommendations[a][i].status = "open"

\* scheduler lines 141-152: the reads of the admins and of the high-severity
\* recommendations, whose exceptions end the job in its outer except clause;
\* server lines 858-874: the WebSocket broadcast, which swallows its errors
SyncNotify(p, oks) ==
    LET r == sp[p]
        calls == p \in JobSlots /\ r.total_recommendations > 0
    IN /\ r.pc = "notify"
       /\ \E ok \in (IF calls THEN Outcomes(oks) ELSE {TRUE}) :
            /\ faults' = Faults(ok)
            /\ sp' = [sp EXCEPT ![p] =
                       IF p = "api"
                       THEN [r EXCEPT !.pc = "done", !.notified = TRUE, !.returned = "report",
                                      !.success = (Len(r.errors) = 0),
                                      !.accounts_synced = Len(r.accounts),
                                      !.instances_found = r.total_instances]
                       ELSE IF ok
                       THEN IF calls /\ HighSeverityOpen
                            THEN [r EXCEPT !.pc = "email", !.notified = calls]
                            ELSE [r EXCEPT !.pc = "done", !.notified = calls, !.returned = "nothing"]
                       ELSE Escape(p, r)]
       /\ UNCHANGED <<accounts, instances, recommendations, audit_events, runs, appVars, envVars>>

\* scheduler lines 154-162: send_alert_notification to the admin;
\* EmailService.send_email (email_service.py 322-357) catches a failed
\* delivery and returns a result
NotifyEmail(p, oks) ==
    LET r == sp[p]
    IN /\ r.pc = "email"
       /\ \E ok \in Outcomes(oks) :
            /\ faults' = Faults(ok)
            /\ sp' = [sp EXCEPT ![p] =
                       [r EXCEPT !.pc = "slack", !.attempted = @ \cup {"email"},
                                 !.undelivered = IF ok THEN @ ELSE @ \cup {"email"}]]
       /\ UNCHANGED <<accounts, instances, recommendations, audit_events, runs, appVars, envVars>>

\* scheduler lines 164-177, send_recommendation_summary and _post_webhook
\* (notification_service.py 44-87): the POST to a webhook; an HTTP error
\* status is logged, a failed connection or a timeout raises, and nothing
\* before the job's outer except clause (181-182) catches it
NotifyWebhook(p, channel, next, oks) ==
    LET r == sp[p]
    IN /\ r.pc = channel
       /\ \E ok \in Outcomes(oks) :
            /\ faults' = Faults(ok)
            /\ sp' = [sp EXCEPT ![p] =
                       IF ok
                       THEN [r EXCEPT !.pc = next, !.attempted = @ \cup {channel},
                                      !.returned = IF next = "done" THEN "nothing" ELSE @]
                       ELSE Escape(p, [r EXCEPT !.attempted = @ \cup {channel},
                                                !.undelivered = @ \cup {channel}])]
       /\ UNCHANGED <<accounts, instances, recommendations, audit_events, runs, appVars, envVars>>
NotifySlack(p, oks) == NotifyWebhook(p, "slack", "teams", oks)
NotifyTeams(p, oks) == NotifyWebhook(p, "teams", "done", oks)

\* the activation is over: the HTTP response is sent, the job slot is free
SyncReturn(p) ==
    /\ sp[p].pc = "done"
    /\ sp' = [sp EXCEPT ![p] = IdleSync]
    /\ UNCHANGED <<accounts, instances, recommendations, audit_events, runs, faults, appVars, envVars>>

vars == <<credentials, sql_instances, sync_logs, rs, runs,
          accounts, instances, recommendations, audit_events, sp, faults, skipped, first_stored, closed, start, reply, listed, POLLING_STATE, authVars>>

Init ==
    /\ credentials = [p \in Providers |-> FALSE]
    /\ sql_instances = <<>>
    /\ sync_logs = <<>>
    /\ rs = [c \in Callers |-> IdleRun]
    /\ runs = 0
    /\ accounts = <<>>
    /\ instances = [a \in AccountIds |-> <<>>]
    /\ recommendations = [a \in AccountIds |-> <<>>]
    /\ audit_events = EmptyBag
    /\ sp = [p \in SyncProcs |-> IdleSync]
    /\ faults = 0
    /\ skipped = 0
    /\ first_stored = [a \in AccountIds |-> <<>>]
    /\ closed = <<>>
    /\ start = <<>>
    /\ reply = NoReply
    /\ listed = NoListing
    /\ POLLING_STATE = NotRunning
    /\ InitAuth

NextApp ==
    \/ \E p \in Providers : connect_provider(p)
    \/ \E c \in Callers : RunSyncStart(c, TRUE)
    \/ \E c \in Callers : RunSyncRead(c)
    \/ \E c \in Callers : RunSyncFetch(c)
    \/ \E c \in Callers : RunSyncPersist(c)
    \/ \E c \in Callers : RunSyncLog(c)
    \/ \E c \in Callers : RunSyncReturn(c)

SpecApp == Init /\ [][NextApp]_vars

\* the polling thread and a request thread of POST /sync are both inside
\* run_sync: their steps interleave at every statement. The aws credentials
\* are stored and an earlier run stored one instance (its log row was lost).
InitAppOverlap ==
    /\ credentials = [p \in Providers |-> p = "aws"]
    /\ sql_instances = (<<"aws", "i-1", CredRegion>> :> "running")
    /\ sync_logs = <<>>
    /\ rs = [c \in Callers |-> IdleRun]
    /\ runs = 0
    /\ accounts = <<>>
    /\ instances = [a \in AccountIds |-> <<>>]
    /\ recommendations = [a \in AccountIds |-> <<>>]
    /\ audit_events = EmptyBag
    /\ sp = [p \in SyncProcs |-> IdleSync]
    /\ faults = 0
    /\ skipped = 0
    /\ first_stored = [a \in AccountIds |-> <<>>]
    /\ closed = <<>>
    /\ start = <<>>
    /\ reply = NoReply
    /\ listed = NoListing
    /\ POLLING_STATE = NotRunning
    /\ InitAuth

NextAppOverlap ==
    \/ \E c \in Callers : RunSyncStart(c, FALSE)
    \/ \E c \in Callers : RunSyncRead(c)
    \/ \E c \in Callers : RunSyncFetch(c)
    \/ \E c \in Callers : RunSyncPersist(c)
    \/ \E c \in Callers : RunSyncLog(c)
    \/ \E c \in Callers : RunSyncReturn(c)

SpecAppOverlap == InitAppOverlap /\ [][NextAppOverlap]_vars

\* the same start, with run_sync entered by one caller at a time
NextAppSeq ==
    \/ \E c \in Callers : RunSyncStart(c, TRUE)
    \/ \E c \in Callers : RunSyncRead(c)
    \/ \E c \in Callers : RunSyncFetch(c)
    \/ \E c \in Callers : RunSyncPersist(c)
    \/ \E c \in Callers : RunSyncLog(c)
    \/ \E c \in Callers : RunSyncReturn(c)

SpecAppSeq == InitAppOverlap /\ [][NextAppSeq]_vars

\* connect requests for registered and unregistered providers, and one
\* sync of POST /sync among them
NextConnect ==
    \/ \E provider \in RequestProviders : \E data \in Bodies : \E ok \in BOOLEAN :
          connect_provider_request(provider, data, ok)
    \/ (runs = 0 /\ RunSyncStart("manual", TRUE))
    \/ RunSyncRead("manual")
    \/ RunSyncFetch("manual")
    \/ RunSyncPersist("manual")
    \/ RunSyncLog("manual")
    \/ RunSyncReturn("manual")

SpecConnect == Init /\ [][NextConnect]_vars

\* the sync-log table and its query: a table that earlier runs of either
\* caller filled, polling runs that add rows (or fail to), with no provider
\* or one provider connected, and GET /sync/logs at any moment
MaxStoredLogs == 2
LogTables ==
    UNION {{[i \in 1..k |-> [id |-> i, source |-> src[i]]] : src \in [1..k -> Callers]} : k \in 0..MaxStoredLogs}
InitLogs ==
    /\ credentials \in {[p \in Providers |-> FALSE], [p \in Providers |-> p = "azure"]}
    /\ sql_instances = <<>>
    /\ sync_logs \in LogTables
    /\ rs = [c \in Callers |-> IdleRun]
    /\ runs = 0
    /\ accounts = <<>>
    /\ instances = [a \in AccountIds |-> <<>>]
    /\ recommendations = [a \in AccountIds |-> <<>>]
    /\ audit_events = EmptyBag
    /\ sp = [p \in SyncProcs |-> IdleSync]
    /\ faults = 0
    /\ skipped = 0
    /\ first_stored = [a \in AccountIds |-> <<>>]
    /\ closed = <<>>
    /\ start = <<>>
    /\ reply = NoReply
    /\ listed = NoListing
    /\ POLLING_STATE = NotRunning
    /\ InitAuth

NextLogs ==
    \/ \E arg \in LimitArgs : sync_logs_request(arg)
    \/ RunSyncStart("polling", TRUE)
    \/ RunSyncRead("polling")
    \/ RunSyncFetch("polling")
    \/ RunSyncPersist("polling")
    \/ RunSyncLog("polling")
    \/ RunSyncReturn("polling")

SpecLogs == InitLogs /\ [][NextLogs]_vars

\* the sync of server.py and scheduler.py, one activation at a time, every
\* store and connector call free to fail
AnyOutcome == BOOLEAN
NextSync ==
    \/ \E a \in AccountIds : create_cloud_account(a)
    \/ \E p \in Triggers : SyncLoad(p, TRUE, AnyOutcome)
    \/ \E p \in Triggers : SyncLogStarted(p, AnyOutcome)
    \/ \E p \in Triggers : SyncMark(p, AnyOutcome)
    \/ \E p \in Triggers : SyncFetch(p, AnyOutcome)
    \/ \E p \in Triggers : SyncDeleteInstances(p, AnyOutcome)
    \/ \E p \in Triggers : SyncInsertInstances(p, AnyOutcome)
    \/ \E p \in Triggers : SyncDeleteRecs(p, AnyOutcome)
    \/ \E p \in Triggers : SyncInsertRecs(p, AnyOutcome)
    \/ \E p \in Triggers : SyncMarkConnected(p, AnyOutcome)
    \/ \E p \in Triggers : SyncHandler(p, AnyOutcome)
    \/ \E p \in Triggers : SyncLogCompleted(p, AnyOutcome)
    \/ \E p \in Triggers : SyncNotify(p, AnyOutcome)
    \/ NotifyEmail("sched", AnyOutcome)
    \/ NotifySlack("sched", AnyOutcome)
    \/ NotifyTeams("sched", AnyOutcome)
    \/ \E p \in Triggers : SyncReturn(p)

SpecSync == Init /\ [][NextSync]_vars

\* the request handler and the scheduler job run on one event loop: their
\* steps interleave at every await; here every call succeeds
Succeeds == {TRUE}
\* one account has been created, nothing else has happened
InitOverlap ==
    /\ credentials = [p \in Providers |-> FALSE]
    /\ sql_instances = <<>>
    /\ sync_logs = <<>>
    /\ rs = [c \in Callers |-> IdleRun]
    /\ runs = 0
    /\ accounts = ("a1" :> [status |-> "connected", last_error |-> None, instance_count |-> 0])
    /\ instances = [a \in AccountIds |-> <<>>]
    /\ recommendations = [a \in AccountIds |-> <<>>]
    /\ audit_events = insert_one(EmptyBag, [event_type |-> "cloud_account.created", accounts_synced |-> 0])
    /\ sp = [p \in SyncProcs |-> IdleSync]
    /\ faults = 0
    /\ skipped = 0
    /\ first_stored = [a \in AccountIds |-> <<>>]
    /\ closed = <<>>
    /\ start = <<>>
    /\ reply = NoReply
    /\ listed = NoListing
    /\ POLLING_STATE = NotRunning
    /\ InitAuth

NextOverlap ==
    \/ \E p \in Triggers : SyncLoad(p, FALSE, Succeeds)
    \/ \E p \in Triggers : SyncLogStarted(p, Succeeds)
    \/ \E p \in Triggers : SyncMark(p, Succeeds)
    \/ \E p \in Triggers : SyncFetch(p, Succeeds)
    \/ \E p \in Triggers : SyncDeleteInstances(p, Succeeds)
    \/ \E p \in Triggers : SyncInsertInstances(p, Succeeds)
    \/ \E p \in Triggers : SyncDeleteRecs(p, Succeeds)
    \/ \E p \in Triggers : SyncInsertRecs(p, Succeeds)
    \/ \E p \in Triggers : SyncMarkConnected(p, Succeeds)
    \/ \E p \in Triggers : SyncLogCompleted(p, Succeeds)
    \/ \E p \in Triggers : SyncNotify(p, Succeeds)
    \/ NotifyEmail("sched", Succeeds)
    \/ NotifySlack("sched", Succeeds)
    \/ NotifyTeams("sched", Succeeds)
    \/ \E p \in Triggers : SyncReturn(p)

SpecOverlap == InitOverlap /\ [][NextOverlap]_vars

\* POST /sync/{account_id} and PATCH /cloud-accounts/{account_id}, one
\* request at a time, every store call free to fail
NextSingle ==
    \/ \E a \in AccountIds : update_cloud_account(a, "disabled")
    \/ \E a \in AccountIds : SingleLoad(a, AnyOutcome)
    \/ SyncMark("single", AnyOutcome)
    \/ SyncFetch("single", AnyOutcome)
    \/ SyncDeleteInstances("single", AnyOutcome)
    \/ SyncInsertInstances("single", AnyOutcome)
    \/ SyncDeleteRecs("single", AnyOutcome)
    \/ SyncInsertRecs("single", AnyOutcome)
    \/ SyncMarkConnected("single", AnyOutcome)
    \/ SyncHandler("single", AnyOutcome)
    \/ SyncReturn("single")

SpecSingle == InitOverlap /\ [][NextSingle]_vars

\* ------------------------------------------------------------------------
\* The interval trigger of the job "scheduled_sync" (scheduler.py)
\* ------------------------------------------------------------------------
MaxTicks == 2        \* ticks dropped in one behaviour

\* get_scheduler, job_defaults: 'max_instances': 1 (with 'coalesce': True the
\* run times that came due together count as one tick)
max_instances == 1
RunningJobs == Cardinality({q \in JobSlots : sp[q].pc # "idle"})
MayRun_always(running) == TRUE
\* the executor accepts a run of the job while fewer than max_instances of
\* its instances are running
MayRun(running) == running < max_instances

\* a tick of the trigger that setup_scheduler gave the job (or the run time
\* trigger_job_now sets): the job is submitted and an instance starts
SchedTick(p, oks) ==
    /\ p \in JobSlots
    /\ MayRun(RunningJobs)
    /\ SyncLoad(p, FALSE, oks)

\* a tick while max_instances instances are running: the submission is
\* refused, the tick is dropped and the next run time is computed from the
\* trigger as usual
TickSkipped ==
    /\ ~MayRun(RunningJobs)
    /\ skipped < MaxTicks
    /\ skipped' = skipped + 1
    /\ UNCHANGED <<first_stored, closed, start, reply, listed, POLLING_STATE, authVars>>
    /\ UNCHANGED <<runs, appVars, srvVars>>

NextTick ==
    \/ \E p \in JobSlots : SchedTick(p, Succeeds)
    \/ TickSkipped
    \/ \E p \in JobSlots : SyncMark(p, Succeeds)
    \/ \E p \in JobSlots : SyncFetch(p, Succeeds)
    \/ \E p \in JobSlots : SyncDeleteInstances(p, Succeeds)
    \/ \E p \in JobSlots : SyncInsertInstances(p, Succeeds)
    \/ \E p \in JobSlots : SyncDeleteRecs(p, Succeeds)
    \/ \E p \in JobSlots : SyncInsertRecs(p, Succeeds)
    \/ \E p \in JobSlots : SyncMarkConnected(p, Succeeds)
    \/ \E p \in JobSlots : SyncLogCompleted(p, Succeeds)
    \/ \E p \in JobSlots : SyncNotify(p, Succeeds)
    \/ \E p \in JobSlots : NotifyEmail(p, Succeeds)
    \/ \E p \in JobSlots : NotifySlack(p, Succeeds)
    \/ \E p \in JobSlots : NotifyTeams(p, Succeeds)
    \/ \E p \in JobSlots : SyncReturn(p)

SpecTick == InitOverlap /\ [][NextTick]_vars

\* ------------------------------------------------------------------------
\* the recommendation endpoints of server.py next to the sync of POST /sync
\* ------------------------------------------------------------------------
MaxEdits == 2
RecommendationStatus == {"open", "dismissed", "resolved"}
RecKey(rec) == <<rec.cloud_account_id, rec.resource_id, rec.rule_id>>
Requests(event_type) ==
    CopiesIn([event_type |-> event_type, accounts_synced |-> 0], audit_events)

\* PATCH /recommendations/{id}, lines 989-1001: the document with that id
\* (the i-th of account a) gets the status; 404 when there is none
update_recommendation(a, i, status) ==
    /\ Requests("recommendation.updated") < MaxEdits
    /\ i \in 1..Len(recommendations[a])
    /\ recommendations' = [recommendations EXCEPT ![a][i].status = status]
    /\ closed' = (RecKey(recommendations[a][i]) :> status) @@ closed
    /\ audit_events' = insert_one(audit_events, [event_type |-> "recommendation.updated", accounts_synced |-> 0])
    /\ UNCHANGED <<accounts, instances, sp, faults, runs, appVars, skipped, first_stored, start, reply, listed, POLLING_STATE, authVars>>

RECURSIVE AllInstances(_)
AllInstances(i) ==
    IF i > Len(AccountOrder) THEN <<>>
    ELSE instances[AccountOrder[i]] \o AllInstances(i + 1)
RecsOf(recs, a) == SelectSeq(recs, LAMBDA rec : rec.cloud_account_id = a)

\* POST /recommendations/run, lines 1003-1021: with no stored instance it
\* returns at once; else delete_many({}), generate_recommendations over all
\* stored instances, insert_many, audit event
run_recommendations ==
    /\ Requests("recommendations.generated") < MaxEdits
    /\ Len(AllInstances(1)) > 0
    /\ recommendations' = [a \in AccountIds |-> RecsOf(generate_recommendations(AllInstances(1)), a)]
    /\ audit_events' = insert_one(audit_events, [event_type |-> "recommendations.generated", accounts_synced |-> 0])
    /\ UNCHANGED <<accounts, instances, sp, faults, runs, appVars, envVars>>

NextRecs ==
    \/ \E a \in AccountIds : \E i \in 1..MaxSnapLen : \E status \in RecommendationStatus :
          update_recommendation(a, i, status)
    \/ run_recommendations
    \/ SyncLoad("api", FALSE, Succeeds)
    \/ SyncLogStarted("api", Succeeds)
    \/ SyncMark("api", Succeeds)
    \/ SyncFetch("api", Succeeds)
    \/ SyncDeleteInstances("api", Succeeds)
    \/ SyncInsertInstances("api", Succeeds)
    \/ SyncDeleteRecs("api", Succeeds)
    \/ SyncInsertRecs("api", Succeeds)
    \/ SyncMarkConnected("api", Succeeds)
    \/ SyncLogCompleted("api", Succeeds)
    \/ SyncNotify("api", Succeeds)
    \/ SyncReturn("api")

SpecRecs == InitOverlap /\ [][NextRecs]_vars

\* ------------------------------------------------------------------------
\* a connector call that never returns
\* ------------------------------------------------------------------------
\* server lines 802-807 / scheduler 76-81: await fetch_instances(...) with no
\* asyncio.wait_for around it; connectors.py 38-50 (boto3 in an executor)
\* and 326-330 (aiohttp session) pass no timeout. When the provider never
\* answers, the activation stays in the await
SyncFetchHangs(p) ==
    /\ sp[p].pc = "fetch"
    /\ sp' = [sp EXCEPT ![p].pc = "awaiting"]
    /\ UNCHANGED <<accounts, instances, recommendations, audit_events, runs, faults, appVars, envVars>>

NextHang ==
    \/ \E p \in Triggers : SyncLoad(p, TRUE, Succeeds)
    \/ \E p \in Triggers : SyncLogStarted(p, Succeeds)
    \/ \E p \in Triggers : SyncMark(p, Succeeds)
    \/ \E p \in Triggers : SyncFetch(p, Succeeds)
    \/ \E p \in Triggers : SyncFetchHangs(p)
    \/ \E p \in Triggers : SyncDeleteInstances(p, Succeeds)
    \/ \E p \in Triggers : SyncInsertInstances(p, Succeeds)
    \/ \E p \in Triggers : SyncDeleteRecs(p, Succeeds)
    \/ \E p \in Triggers : SyncInsertRecs(p, Succeeds)
    \/ \E p \in Triggers : SyncMarkConnected(p, Succeeds)
    \/ \E p \in Triggers : SyncLogCompleted(p, Succeeds)
    \/ \E p \in Triggers : SyncNotify(p, Succeeds)
    \/ NotifyEmail("sched", Succeeds)
    \/ NotifySlack("sched", Succeeds)
    \/ NotifyTeams("sched", Succeeds)
    \/ \E p \in Triggers : SyncReturn(p)

\* the event loop runs every coroutine that can take a step
SpecHang == InitOverlap /\ [][NextHang]_vars /\ WF_vars(NextHang)

\* ------------------------------------------------------------------------
\* two requests POST /sync/{account_id} for two different accounts, their
\* steps interleaved
\* ------------------------------------------------------------------------
AccountOf(p) == IF p = "single" THEN "a1" ELSE "a2"

\* both accounts have been created, nothing else has happened
InitPair ==
    /\ credentials = [p \in Providers |-> FALSE]
    /\ sql_instances = <<>>
    /\ sync_logs = <<>>
    /\ rs = [c \in Callers |-> IdleRun]
    /\ runs = 0
    /\ accounts = [a \in AccountIds |-> [status |-> "connected", last_error |-> None, instance_count |-> 0]]
    /\ instances = [a \in AccountIds |-> <<>>]
    /\ recommendations = [a \in AccountIds |-> <<>>]
    /\ audit_events = insert_one(insert_one(EmptyBag, [event_type |-> "cloud_account.created", accounts_synced |-> 0]),
                                 [event_type |-> "cloud_account.created", accounts_synced |-> 0])
    /\ sp = [p \in SyncProcs |-> IdleSync]
    /\ faults = 0
    /\ skipped = 0
    /\ first_stored = [a \in AccountIds |-> <<>>]
    /\ closed = <<>>
    /\ start = <<>>
    /\ reply = NoReply
    /\ listed = NoListing
    /\ POLLING_STATE = NotRunning
    /\ InitAuth

\* two requests are made in a behaviour
PairLoad(p, oks) ==
    /\ runs < Cardinality(Singles)
    /\ SingleLoadAt(p, AccountOf(p), FALSE, oks)

NextPair ==
    \/ \E p \in Singles : PairLoad(p, AnyOutcome)
    \/ \E p \in Singles : SyncMark(p, AnyOutcome)
    \/ \E p \in Singles : SyncFetch(p, AnyOutcome)
    \/ \E p \in Singles : SyncDeleteInstances(p, AnyOutcome)
    \/ \E p \in Singles : SyncInsertInstances(p, AnyOutcome)
    \/ \E p \in Singles : SyncDeleteRecs(p, AnyOutcome)
    \/ \E p \in Singles : SyncInsertRecs(p, AnyOutcome)
    \/ \E p \in Singles : SyncMarkConnected(p, AnyOutcome)
    \/ \E p \in Singles : SyncHandler(p, AnyOutcome)
    \/ \E p \in Singles : SyncReturn(p)

SpecPair == InitPair /\ [][NextPair]_vars

\* the connectors of connectors.py applied to every listing the providers
\* of the model report
NextListing ==
    \E provider \in DOMAIN NativeStates :
        \E reported \in BoundedSeq(NativeStates[provider], MaxSnapLen) :
            list_instances_call(provider, reported)

SpecListing == Init /\ [][NextListing]_vars

\* ------------------------------------------------------------------------
\* one sync run and its report: POST /sync of server.py over two accounts,
\* or run_sync of app.py over its two providers, every call free to fail
\* ------------------------------------------------------------------------
InitReport ==
    /\ credentials = [p \in Providers |-> TRUE]
    /\ sql_instances = <<>>
    /\ sync_logs = <<>>
    /\ rs = [c \in Callers |-> IdleRun]
    /\ runs = 0
    /\ accounts = [a \in AccountIds |-> [status |-> "connected", last_error |-> None, instance_count |-> 0]]
    /\ instances = [a \in AccountIds |-> <<>>]
    /\ recommendations = [a \in AccountIds |-> <<>>]
    /\ audit_events = EmptyBag
    /\ sp = [p \in SyncProcs |-> IdleSync]
    /\ faults = 0
    /\ skipped = 0
    /\ first_stored = [a \in AccountIds |-> <<>>]
    /\ closed = <<>>
    /\ start = <<>>
    /\ reply = NoReply
    /\ listed = NoListing
    /\ POLLING_STATE = NotRunning
    /\ InitAuth

NextReport ==
    \/ (runs = 0 /\ SyncLoad("api", TRUE, AnyOutcome))
    \/ SyncLogStarted("api", AnyOutcome)
    \/ SyncMark("api", AnyOutcome)
    \/ SyncFetch("api", AnyOutcome)
    \/ SyncDeleteInstances("api", AnyOutcome)
    \/ SyncInsertInstances("api", AnyOutcome)
    \/ SyncDeleteRecs("api", AnyOutcome)
    \/ SyncInsertRecs("api", AnyOutcome)
    \/ SyncMarkConnected("api", AnyOutcome)
    \/ SyncHandler("api", AnyOutcome)
    \/ SyncLogCompleted("api", AnyOutcome)
    \/ SyncNotify("api", AnyOutcome)
    \/ SyncReturn("api")
    \/ (runs = 0 /\ NoSyncInFlight /\ RunSyncStart("manual", TRUE))
    \/ RunSyncRead("manual")
    \/ RunSyncFetch("manual")
    \/ RunSyncPersist("manual")
    \/ RunSyncLog("manual")
    \/ RunSyncReturn("manual")

SpecReport == InitReport /\ [][NextReport]_vars

\* ------------------------------------------------------------------------
\* The periodic sync of either backend: the polling thread of app.py
\* (no account documents: the Flask deployment), or the interval job of
\* scheduler.py over one account (the FastAPI deployment); the reads of the
\* store, the connector call and the writes of the except clause free to fail
\* ------------------------------------------------------------------------
InitPolling ==
    /\ \/ credentials \in {[p \in Providers |-> FALSE], [p \in Providers |-> p = "azure"]} /\ accounts = <<>>
       \/ credentials = [p \in Providers |-> FALSE]
          /\ accounts = ("a1" :> [status |-> "connected", last_error |-> None, instance_count |-> 0])
    /\ sql_instances = <<>>
    /\ sync_logs = <<>>
    /\ rs = [c \in Callers |-> IdleRun]
    /\ runs = 0
    /\ instances = [a \in AccountIds |-> <<>>]
    /\ recommendations = [a \in AccountIds |-> <<>>]
    /\ audit_events = EmptyBag
    /\ sp = [p \in SyncProcs |-> IdleSync]
    /\ faults = 0
    /\ skipped = 0
    /\ first_stored = [a \in AccountIds |-> <<>>]
    /\ closed = <<>>
    /\ start = <<>>
    /\ reply = NoReply
    /\ listed = NoListing
    /\ POLLING_STATE = NotRunning
    /\ InitAuth

NextPolling ==
    \/ polling_loop_start
    \/ polling_loop_run
    \/ RunSyncRead("polling")
    \/ RunSyncFetch("polling")
    \/ RunSyncPersist("polling")
    \/ RunSyncLog("polling")
    \/ polling_loop_next
    \/ (DOMAIN accounts # {} /\ SchedTick("sched", AnyOutcome))
    \/ SyncMark("sched", Succeeds)
    \/ SyncFetch("sched", AnyOutcome)
    \/ SyncDeleteInstances("sched", Succeeds)
    \/ SyncInsertInstances("sched", Succeeds)
    \/ SyncDeleteRecs("sched", Succeeds)
    \/ SyncInsertRecs("sched", Succeeds)
    \/ SyncMarkConnected("sched", Succeeds)
    \/ SyncHandler("sched", AnyOutcome)
    \/ SyncLogCompleted("sched", Succeeds)
    \/ SyncNotify("sched", Succeeds)
    \/ NotifyEmail("sched", Succeeds)
    \/ NotifySlack("sched", Succeeds)
    \/ NotifyTeams("sched", Succeeds)
    \/ SyncReturn("sched")

\* the polling thread is scheduled and its sleep ends; APScheduler fires the
\* interval trigger and the event loop runs the job's coroutine
SpecPolling == InitPolling /\ [][NextPolling]_vars /\ WF_vars(NextPolling)

\* ------------------------------------------------------------------------
\* PATCH /cloud-accounts/{account_id} with status disabled, served on the
\* event loop between the awaits of a sync of that account; the connector
\* call may fail, every store call succeeds
\* ------------------------------------------------------------------------
NextDisable ==
    \/ \E a \in AccountIds :
          (\E p \in Triggers : InFlight(p, a)) /\ update_cloud_account_request(a, "disabled")
    \/ \E p \in Triggers : SyncLoad(p, TRUE, Succeeds)
    \/ \E p \in Triggers : SyncLogStarted(p, Succeeds)
    \/ \E p \in Triggers : SyncMark(p, Succeeds)
    \/ \E p \in Triggers : SyncFetch(p, {TRUE, FALSE})
    \/ \E p \in Triggers : SyncDeleteInstances(p, Succeeds)
    \/ \E p \in Triggers : SyncInsertInstances(p, Succeeds)
    \/ \E p \in Triggers : SyncDeleteRecs(p, Succeeds)
    \/ \E p \in Triggers : SyncInsertRecs(p, Succeeds)
    \/ \E p \in Triggers : SyncMarkConnected(p, Succeeds)
    \/ \E p \in Triggers : SyncHandler(p, Succeeds)
    \/ \E p \in Triggers : SyncLogCompleted(p, Succeeds)
    \/ \E p \in Triggers : SyncNotify(p, Succeeds)
    \/ NotifyEmail("sched", Succeeds)
    \/ NotifySlack("sched", Succeeds)
    \/ NotifyTeams("sched", Succeeds)
    \/ \E p \in Triggers : SyncReturn(p)

SpecDisable == InitOverlap /\ [][NextDisable]_vars

\* accounts are created with complete and with incomplete credentials, and
\* synced by POST /sync
CredentialBodies == {"missing fields", "complete"}
NextCreate ==
    \/ \E a \in AccountIds : \E data \in CredentialBodies : \E outcome \in CreateOutcomes :
          create_cloud_account_request(a, data, outcome)
    \/ SyncLoad("api", TRUE, Succeeds)
    \/ SyncLogStarted("api", Succeeds)
    \/ SyncMark("api", Succeeds)
    \/ SyncFetch("api", AnyOutcome)
    \/ SyncDeleteInstances("api", Succeeds)
    \/ SyncInsertInstances("api", Succeeds)
    \/ SyncDeleteRecs("api", Succeeds)
    \/ SyncInsertRecs("api", Succeeds)
    \/ SyncMarkConnected("api", Succeeds)
    \/ SyncHandler("api", Succeeds)
    \/ SyncLogCompleted("api", Succeeds)
    \/ SyncNotify("api", Succeeds)
    \/ SyncReturn("api")

SpecCreate == Init /\ [][NextCreate]_vars

\* ------------------------------------------------------------------------
\* the manual sync of POST /sync and the scheduled job, each run alone from
\* a stored state that an earlier sync has left
\* ------------------------------------------------------------------------
Collections == [accounts |-> accounts, instances |-> instances, recommendations |-> recommendations]

\* the one run of a behaviour starts; what it finds stored is kept for the
\* comparison
SyncLoadRecorded(p, oks) ==
    /\ runs = 0
    /\ SyncLoadStep(p, TRUE, oks)
    /\ start' = Collections
    /\ UNCHANGED <<skipped, first_stored, closed, reply, listed, POLLING_STATE, authVars>>

\* what a successful sync at time 0 has stored for an account
StoredLists(a) == {normalized_list(snap, 0) : snap \in {s \in DocSnapshots(a) : Len(s) <= 1}}

InitEquiv ==
    /\ credentials = [p \in Providers |-> FALSE]
    /\ sql_instances = <<>>
    /\ sync_logs = <<>>
    /\ rs = [c \in Callers |-> IdleRun]
    /\ runs = 0
    /\ instances \in [AccountIds -> UNION {StoredLists(a) : a \in AccountIds}]
    /\ \A a \in AccountIds : instances[a] \in StoredLists(a)
    /\ accounts = [a \in AccountIds |->
                     [status |-> "connected", last_error |-> None, instance_count |-> Len(instances[a])]]
    /\ recommendations = [a \in AccountIds |-> generate_recommendations(instances[a])]
    /\ audit_events = EmptyBag
    /\ sp = [p \in SyncProcs |-> IdleSync]
    /\ faults = 0
    /\ skipped = 0
    /\ first_stored = [a \in AccountIds |-> FirstStored(<<>>, instances[a], 1)]
    /\ closed = <<>>
    /\ start = <<>>
    /\ reply = NoReply
    /\ listed = NoListing
    /\ POLLING_STATE = NotRunning
    /\ InitAuth

\* every store call succeeds, a connector call may fail
NextEquiv ==
    \/ \E p \in Triggers : SyncLoadRecorded(p, Succeeds)
    \/ \E p \in Triggers : SyncLogStarted(p, Succeeds)
    \/ \E p \in Triggers : SyncMark(p, Succeeds)
    \/ \E p \in Triggers : SyncFetch(p, AnyOutcome)
    \/ \E p \in Triggers : SyncDeleteInstances(p, Succeeds)
    \/ \E p \in Triggers : SyncInsertInstances(p, Succeeds)
    \/ \E p \in Triggers : SyncDeleteRecs(p, Succeeds)
    \/ \E p \in Triggers : SyncInsertRecs(p, Succeeds)
    \/ \E p \in Triggers : SyncMarkConnected(p, Succeeds)
    \/ \E p \in Triggers : SyncHandler(p, Succeeds)
    \/ \E p \in Triggers : SyncLogCompleted(p, Succeeds)
    \/ \E p \in Triggers : SyncNotify(p, Succeeds)
    \/ NotifyEmail("sched", Succeeds)
    \/ NotifySlack("sched", Succeeds)
    \/ NotifyTeams("sched", Succeeds)
    \/ \E p \in Triggers : SyncReturn(p)

SpecEquiv == InitEquiv /\ [][NextEquiv]_vars

\* the same start and the one recorded run, every store and connector call
\* free to fail
NextFrame ==
    \/ \E p \in Triggers : SyncLoadRecorded(p, AnyOutcome)
    \/ \E p \in Triggers : SyncLogStarted(p, AnyOutcome)
    \/ \E p \in Triggers : SyncMark(p, AnyOutcome)
    \/ \E p \in Triggers : SyncFetch(p, AnyOutcome)
    \/ \E p \in Triggers : SyncDeleteInstances(p, AnyOutcome)
    \/ \E p \in Triggers : SyncInsertInstances(p, AnyOutcome)
    \/ \E p \in Triggers : SyncDeleteRecs(p, AnyOutcome)
    \/ \E p \in Triggers : SyncInsertRecs(p, AnyOutcome)
    \/ \E p \in Triggers : SyncMarkConnected(p, AnyOutcome)
    \/ \E p \in Triggers : SyncHandler(p, AnyOutcome)
    \/ \E p \in Triggers : SyncLogCompleted(p, AnyOutcome)
    \/ \E p \in Triggers : SyncNotify(p, AnyOutcome)
    \/ NotifyEmail("sched", AnyOutcome)
    \/ NotifySlack("sched", AnyOutcome)
    \/ NotifyTeams("sched", AnyOutcome)
    \/ \E p \in Triggers : SyncReturn(p)

SpecFrame == InitEquiv /\ [][NextFrame]_vars

\* ------------------------------------------------------------------------
\* DELETE /cloud-accounts/{account_id} served on the event loop between the
\* awaits of the one sync of a behaviour; the connector call may fail, every
\* store call succeeds
\* ------------------------------------------------------------------------
NextDelete ==
    \/ \E a \in AccountIds : delete_cloud_account(a)
    \/ \E p \in Triggers : (runs = 0 /\ SyncLoad(p, TRUE, Succeeds))
    \/ \E p \in Triggers : SyncLogStarted(p, Succeeds)
    \/ \E p \in Triggers : SyncMark(p, Succeeds)
    \/ \E p \in Triggers : SyncFetch(p, {TRUE, FALSE})
    \/ \E p \in Triggers : SyncDeleteInstances(p, Succeeds)
    \/ \E p \in Triggers : SyncInsertInstances(p, Succeeds)
    \/ \E p \in Triggers : SyncDeleteRecs(p, Succeeds)
    \/ \E p \in Triggers : SyncInsertRecs(p, Succeeds)
    \/ \E p \in Triggers : SyncMarkConnected(p, Succeeds)
    \/ \E p \in Triggers : SyncHandler(p, Succeeds)
    \/ \E p \in Triggers : SyncLogCompleted(p, Succeeds)
    \/ \E p \in Triggers : SyncNotify(p, Succeeds)
    \/ NotifyEmail("sched", Succeeds)
    \/ NotifySlack("sched", Succeeds)
    \/ NotifyTeams("sched", Succeeds)
    \/ \E p \in Triggers : SyncReturn(p)

SpecDelete == InitEquiv /\ [][NextDelete]_vars

\* ------------------------------------------------------------------------
\* the auth endpoints of server.py: one user who logs in, two refresh
\* requests in flight at a time, logout with a live or an expired access
\* token, requests that authenticate with a token
\* ------------------------------------------------------------------------
NextAuth ==
    \/ Tick
    \/ login
    \/ \E q \in RefreshRequests : \E token \in issued : RefreshCheck(q, token)
    \/ \E q \in RefreshRequests : RefreshUser(q)
    \/ \E q \in RefreshRequests : RefreshBlacklist(q, AnyOutcome)
    \/ \E q \in RefreshRequests : RefreshReturn(q)
    \/ \E a \in issued \cup {ExpiredAccess} : \E r \in issued \cup {NoToken} : \E ok1, ok2 \in AnyOutcome :
          a.type = "access" /\ r.type # "access" /\ logout(a, r, ok1, ok2)
    \/ \E token \in issued \cup {ExpiredAccess} : get_current_user(token)

SpecAuth == Init /\ [][NextAuth]_vars

\* ========================================================================
\* Properties of run_sync (app.py)
\* ========================================================================

\* the loop iteration of the provider before r.idx ended with a stored list:
\* existing_states, items and sent are still the ones of that iteration
Synced(r) ==
    /\ r.pc \in {"read", "log"}
    /\ r.idx > 1
    /\ r.results[SyncProviders[r.idx - 1]].count # NoCount
SyncedProvider(r) == SyncProviders[r.idx - 1]

Keys(items) == {KeyOf(items[i]) : i \in 1..Len(items)}
Occurrences(items, k) == {i \in 1..Len(items) : KeyOf(items[i]) = k}
LastIndex(items, k) == CHOOSE i \in Occurrences(items, k) : \A j \in Occurrences(items, k) : j <= i
\* the state an identity has in a fetched list: the one of its last record
FetchedState(items, k) == items[LastIndex(items, k)].state
AlertsFor(sent, k) == Cardinality({i \in 1..Len(sent) : KeyOf(sent[i].inst) = k})

\* C1: an identity that is stored and fetched, with stored and fetched state
\* both in {running, stopped} and different, gets exactly one state-change
\* alert in the run.
C1_ExactlyOneTransition ==
    \A c \in Callers :
        Synced(rs[c]) =>
            \A k \in DOMAIN rs[c].existing_states \cap Keys(rs[c].items) :
                ( /\ rs[c].existing_states[k] \in AlertStates
                  /\ FetchedState(rs[c].items, k) \in AlertStates
                  /\ rs[c].existing_states[k] # FetchedState(rs[c].items, k) )
                => AlertsFor(rs[c].sent, k) = 1

\* C2: every state-change alert of a run is for a fetched record whose
\* identity has a stored row, with the stored state and the record's state
\* both in {running, stopped}: no alert for pending, terminated, unknown or
\* missing states, none for an instance without a stored row.
C2_NoTransitionOutsideAlertStates ==
    \A c \in Callers :
        \A i \in 1..Len(rs[c].sent) :
            LET t == rs[c].sent[i]
                k == KeyOf(t.inst)
            IN /\ \E j \in 1..Len(rs[c].items) : rs[c].items[j] = t.inst
               /\ k \in DOMAIN rs[c].existing_states
               /\ rs[c].existing_states[k] \in AlertStates
               /\ t.inst.state \in AlertStates
               /\ t.prev_state = rs[c].existing_states[k]
               /\ t.new_state = t.inst.state

\* a run stored a list that holds a record in a non-alertable state whose
\* stored state differs and is alertable, and a record without a stored row,
\* and sent no alert
C2_Witness ==
    \E c \in Callers :
        /\ Synced(rs[c])
        /\ \E i \in 1..Len(rs[c].items) :
              /\ rs[c].items[i].state = "pending"
              /\ Get(rs[c].existing_states, KeyOf(rs[c].items[i])) = "running"
        /\ \E i \in 1..Len(rs[c].items) :
              /\ KeyOf(rs[c].items[i]) \notin DOMAIN rs[c].existing_states
              /\ rs[c].items[i].state = "stopped"
        /\ Len(rs[c].sent) = 0

\* C8 (run_sync): after a provider's list is stored, the rows of the
\* provider are exactly the identities of the fetched list.
C8_StoredIsSnapshot ==
    \A c \in Callers :
        Synced(rs[c]) =>
            list_instances(sql_instances, SyncedProvider(rs[c])) = Keys(rs[c].items)

\* ========================================================================
\* Properties of sync_all_accounts / scheduled_sync_job
\* ========================================================================

\* the activation works on account a: between marking it syncing and
\* recording its outcome
\* C3: at no time are two syncs in flight for the same account.
C3_OneSyncPerAccount ==
    \A a \in AccountIds : \A p, q \in SyncProcs :
        (InFlight(p, a) /\ InFlight(q, a)) => p = q

Failed(r) == {r.errors[i].account : i \in 1..Len(r.errors)}
Attempted(r) == {r.accounts[i] : i \in 1..Len(r.accounts)}

\* C4: a finished sync of N accounts in which exactly one account failed, at
\* its connector call, reports N-1 accounts synced and one error, leaves the
\* other accounts connected, and their stored instances are their snapshots.
C4_IsolationReport ==
    \A p \in SyncProcs :
        LET r == sp[p]
        IN ( /\ r.pc = "done"
             /\ r.returned = "report"
             /\ Len(r.accounts) >= 2
             /\ Len(r.errors) = 1
             /\ r.errors[1].msg = "connector" )
           => /\ r.accounts_synced = Len(r.accounts) - 1
              /\ \A a \in Attempted(r) \ Failed(r) :
                    /\ accounts[a].status = "connected"
                    /\ instances[a] = r.fetched[a]

\* C5: whichever step of an account's sync failed, the account is recorded
\* with status error and the failure's message, and the run went on to every
\* remaining account.
C5_FailureRecordedRunContinues ==
    \A p \in SyncProcs :
        LET r == sp[p]
        IN (r.pc = "done" /\ Len(r.errors) > 0 /\ r.errors[1].account # None) =>
             /\ r.k = Len(r.accounts) + 1
             /\ \A i \in 1..Len(r.errors) :
                   r.errors[i].account \in DOMAIN accounts =>
                     /\ accounts[r.errors[i].account].status = "error"
                     /\ accounts[r.errors[i].account].last_error = r.errors[i].msg

\* C6: a run that came to its end wrote exactly one entry of the sync log,
\* also when there was nothing to sync.
C6_ExactlyOneLogEntry ==
    \A p \in SyncProcs :
        (sp[p].pc = "done" /\ sp[p].returned \in {"report", "nothing"}) => sp[p].logged = 1

\* C7: when the write of the run's log entry fails, the run still returns
\* normally and its notifications are dispatched.
C7_LogFailureSwallowed ==
    \A p \in SyncProcs :
        (sp[p].pc = "done" /\ sp[p].log_failed) =>
            /\ sp[p].returned # "exception"
            /\ sp[p].notified \/ (p \in JobSlots /\ sp[p].total_recommendations = 0)

DocsOf(coll, id) == {i \in 1..Len(coll) : coll[i].instance_id = id}
LastDoc(snap, id) == snap[CHOOSE i \in DocsOf(snap, id) : \A j \in DocsOf(snap, id) : j <= i]
HasDuplicate(snap) == \E i, j \in 1..Len(snap) : i < j /\ snap[i].instance_id = snap[j].instance_id

\* C9: after a run stored the snapshot of an account, every identity of the
\* snapshot is stored exactly once, with the values of its last record.
C9_IdentityStoredOnce ==
    \A p \in SyncProcs :
        LET r == sp[p]
        IN (r.pc = "done" /\ r.returned \in {"report", "nothing"}) =>
             \A a \in (DOMAIN r.fetched) \ Failed(r) :
                 \A i \in 1..Len(r.fetched[a]) :
                     LET id == r.fetched[a][i].instance_id
                     IN /\ Cardinality(DocsOf(instances[a], id)) = 1
                        /\ \A j \in DocsOf(instances[a], id) :
                              instances[a][j] = LastDoc(r.fetched[a], id)

\* what a run reports about anomalies: entries of its error list that name
\* a duplicate identity, audit events of an anomaly type
AnomaliesReported(r) ==
    Cardinality({i \in 1..Len(r.errors) : r.errors[i].msg = "duplicate identity"})
    + Cardinality({e \in BagToSet(audit_events) : e.event_type = "anomaly"})

\* C10: a run whose fetched snapshot held an identity twice reports a
\* non-zero anomaly count.
C10_DuplicateAnomalyRecorded ==
    \A p \in SyncProcs :
        LET r == sp[p]
        IN ( /\ r.pc = "done"
             /\ r.returned \in {"report", "nothing"}
             /\ \E a \in (DOMAIN r.fetched) \ Failed(r) : HasDuplicate(r.fetched[a]) )
           => AnomaliesReported(r) > 0


\* ========================================================================
\* Properties of the scheduler
\* ========================================================================

\* C11: at most one instance of the scheduled sync job is running at any
\* time; a tick that fires while an instance is running starts nothing.
C11_OneScheduledRunInFlight ==
    Cardinality({q \in JobSlots : sp[q].pc \notin {"idle"}}) <= 1

\* a tick was dropped while an instance of the job is in the middle of an
\* account's sync
C11_Witness ==
    /\ skipped > 0
    /\ \E q \in JobSlots : sp[q].pc = "fetch"

\* ========================================================================
\* Properties of overlapping run_sync calls
\* ========================================================================
NoDuplicateKeys(items) == \A i, j \in 1..Len(items) : KeyOf(items[i]) = KeyOf(items[j]) => i = j
StoredChange(old, new) == old \in AlertStates /\ new \in AlertStates /\ old # new

OnlyAlertStates(items) == \A i \in 1..Len(items) : items[i].state \in AlertStates

\* C12: whenever a run stores a fetched list (one without repeated
\* identities, all records running or stopped), it dispatches one alert for
\* every identity whose stored state this write changes between running and
\* stopped, and no alert for any other identity.
C12_EachChangeAlertedOnce ==
    [][\A c \in Callers :
         ( /\ rs[c].pc = "persist"
           /\ rs'[c].pc # "persist"
           /\ NoDuplicateKeys(rs[c].items)
           /\ \A d \in Callers : OnlyAlertStates(rs[d].items) )
         => \A k \in DOMAIN sql_instances' :
               AlertsFor(rs'[c].sent, k) =
                   IF StoredChange(Get(sql_instances, k), sql_instances'[k]) THEN 1 ELSE 0]_vars

\* ========================================================================
\* Properties of the sync requests
\* ========================================================================

\* C13: a sync request that has attempted its accounts, and left each of
\* them connected or recorded as error, ends with a report, never with an
\* exception.
C13_RequestReturnsReport ==
    \A p \in Handlers :
        ( /\ sp[p].pc = "done"
          /\ Len(sp[p].accounts) > 0
          /\ \A a \in Attempted(sp[p]) : accounts[a].status \in {"connected", "error"} )
        => sp[p].returned = "report"

\* ========================================================================
\* More properties of run_sync
\* ========================================================================

\* the state read at the start of the iteration is the one that storing
\* this very list leaves behind: every identity of the list is stored with
\* the state of its last record
StoredIsSnapshot(existing_states, items) ==
    \A k \in Keys(items) :
        /\ k \in DOMAIN existing_states
        /\ existing_states[k] = FetchedState(items, k)

\* C14: a run that fetches the list whose states are already the stored
\* ones (the list the previous run stored) sends no state-change alert.
C14_SameSnapshotNoTransition ==
    \A c \in Callers :
        (Synced(rs[c]) /\ StoredIsSnapshot(rs[c].existing_states, rs[c].items))
        => Len(rs[c].sent) = 0

\* the records of a list that differ from the stored state tbl, computed on
\* the table itself
ChangesAgainst(tbl, items) ==
    {i \in 1..Len(items) :
        /\ KeyOf(items[i]) \in DOMAIN tbl
        /\ tbl[KeyOf(items[i])] \in AlertStates
        /\ items[i].state \in AlertStates
        /\ tbl[KeyOf(items[i])] # items[i].state}

C16_FirstSeenKept ==
    faults = 0 =>
        \A a \in AccountIds :
            \A i \in 1..Len(instances[a]) :
                LET doc == instances[a][i]
                IN doc.instance_id \in DOMAIN first_stored[a]
                      => doc.first_seen_at = first_stored[a][doc.instance_id]

\* ------------------------------------------------------------------------
\* C17: a stored recommendation whose key (account, resource, rule) was
\* last set to dismissed or resolved through update_recommendation has
\* that status, whatever syncs and regenerations happened since (stated
\* for accounts whose stored recommendations have pairwise different keys).
SingleRecPerKey(recs) ==
    \A i, j \in 1..Len(recs) : RecKey(recs[i]) = RecKey(recs[j]) => i = j
C17_ClosedStaysClosed ==
    \A a \in AccountIds :
        SingleRecPerKey(recommendations[a]) =>
            \A i \in 1..Len(recommendations[a]) :
                LET rec == recommendations[a][i]
                IN (RecKey(rec) \in DOMAIN closed /\ closed[RecKey(rec)] \in {"dismissed", "resolved"})
                      => rec.status = closed[RecKey(rec)]

\* ------------------------------------------------------------------------
\* C18: the step in which a sync operation reaches an account (its first
\* write, status syncing) is never taken for an account whose stored
\* status is disabled at that moment, and a disabled account's status and
\* instances are left as they are by every step of a sync operation.
ReachedDisabled(p) ==
    /\ sp[p].pc = "mark"
    /\ accounts[Current(sp[p])].status = "disabled"
C18_DisabledNotSynced ==
    [][\A p \in SyncProcs :
          ReachedDisabled(p) =>
              /\ accounts'[Current(sp[p])].status = "disabled"
              /\ instances'[Current(sp[p])] = instances[Current(sp[p])]
              /\ sp'[p].pc \notin {"fetch", "del_inst", "ins_inst"}]_vars

\* ------------------------------------------------------------------------
\* C19: a scheduled run in which the delivery of a notification failed
\* has attempted every notification of the run all the same (e-mail,
\* Slack, Teams) and ends as a run without a failed delivery ends.
C19_DeliveryFailureDiscarded ==
    \A p \in JobSlots :
        (sp[p].pc = "done" /\ sp[p].undelivered # {})
            => /\ sp[p].attempted = {"email", "slack", "teams"}
               /\ sp[p].returned = "nothing"

\* ------------------------------------------------------------------------
\* C20: a sync run that has started the connector call of an account
\* comes to its end; the account it was fetching is not left in status
\* syncing.
C20_RunTerminates ==
    \A p \in Triggers :
        (sp[p].pc = "fetch") ~>
            (sp[p].pc = "done" /\ \A a \in DOMAIN accounts : accounts[a].status # "syncing")

\* ------------------------------------------------------------------------
\* C21: under every interleaving of the syncs of two different accounts,
\* a step of the sync of one account leaves the other account's document,
\* instances and recommendations as they are, and a sync that returns its
\* report leaves its account in the state it produces when run alone: its
\* fetched instances, their recommendations, status connected.
RowsOf(a) == <<accounts[a], instances[a], recommendations[a]>>
AloneResult(p) ==
    LET a == AccountOf(p)
        docs == sp[p].fetched[a]
    IN RowsOf(a) = <<[status |-> "connected", last_error |-> None, instance_count |-> Len(docs)],
                     docs, generate_recommendations(docs)>>
C21_AccountsIndependent ==
    [][\A p \in Singles :
          /\ (sp'[p] # sp[p] /\ sp[p].pc # "idle")
                => \A b \in AccountIds \ {AccountOf(p)} : RowsOf(b)' = RowsOf(b)
          /\ (sp'[p].pc = "done" /\ sp'[p].returned = "report") => AloneResult(p)']_vars
\* both syncs have returned their report, and each fetched after both had started
C21_Witness ==
    /\ \A p \in Singles : sp[p].pc = "done" /\ sp[p].returned = "report"
    /\ \A a \in AccountIds : Len(instances[a]) > 0 /\ instances[a][1].first_seen_at = 2

\* ------------------------------------------------------------------------
\* C22: the final accounts, instances and recommendations of a sync run
\* are one function of the stored state it started from and of its
\* connector results, the same for the manual request and for the
\* scheduled job: a fetched account holds its fetched instances, their
\* recommendations and status connected, a failed one keeps its rows and
\* gets status error.
ErrorOf(r, a) == (CHOOSE i \in 1..Len(r.errors) : r.errors[i].account = a)
ExpectedRows(r, a) ==
    IF a \in Failed(r)
    THEN <<[start.accounts[a] EXCEPT !.status = "error", !.last_error = r.errors[ErrorOf(r, a)].msg],
           start.instances[a], start.recommendations[a]>>
    ELSE IF a \in DOMAIN r.fetched
    THEN <<[status |-> "connected", last_error |-> None, instance_count |-> Len(r.fetched[a])],
           r.fetched[a], generate_recommendations(r.fetched[a])>>
    ELSE <<start.accounts[a], start.instances[a], start.recommendations[a]>>
C22_SameOrchestration ==
    \A p \in Triggers :
        sp[p].pc = "done" => \A a \in AccountIds : RowsOf(a) = ExpectedRows(sp[p], a)
\* the scheduled job has ended: one account failed at its connector, the
\* other one was stored with instances that differ from the ones found
C22_Witness ==
    /\ sp["sched"].pc = "done"
    /\ Failed(sp["sched"]) = {"a1"}
    /\ start.instances["a2"] # <<>>
    /\ instances["a2"] # <<>>
    /\ instances["a2"][1].state # start.instances["a2"][1].state

\* ------------------------------------------------------------------------
\* C23: after a single-account sync has returned its report, the stored
\* instances of the account are a list its provider's connector returns,
\* as they are after the all-accounts sync.
FromConnector(a, docs) ==
    \E snap \in DocSnapshots(a) :
        /\ Len(snap) = Len(docs)
        /\ \A i \in 1..Len(docs) :
              docs[i].instance_id = snap[i].instance_id /\ docs[i].state = snap[i].state
C23_SingleStoresConnectorResult ==
    \A p \in Singles :
        (sp[p].pc = "done" /\ sp[p].returned = "report")
            => FromConnector(sp[p].accounts[1], instances[sp[p].accounts[1]])

\* ------------------------------------------------------------------------
\* C24: a provider that is not registered resolves to no connector: the
\* connect request for it is answered with an unsupported-provider error
\* and stores nothing, no sync step calls a connector for it, and
\* connectors.get_connector answers every unregistered identifier with
\* its unknown-provider error.
ProviderIds == {"aws", "azure", "gcp", "do", "oci"}
C25_IncompleteCredentialsRejected ==
    ("body" \in DOMAIN reply /\ reply.body = "missing fields")
        => /\ reply.code # 200
           /\ reply.account \notin DOMAIN accounts

\* ------------------------------------------------------------------------
\* C26: in every connector listing, Azure deallocated, GCP SUSPENDED and
\* DigitalOcean off come out as stopped, and a reported state the
\* provider's map does not know comes out exactly as it was reported.
MustBeStopped == {<<"azure", "deallocated">>, <<"gcp", "SUSPENDED">>, <<"do", "off">>}
C26_StatesMappedOrVerbatim ==
    \A i \in 1..Len(listed.reported) :
        /\ <<listed.provider, listed.reported[i]>> \in MustBeStopped => listed.states[i] = "stopped"
        /\ listed.reported[i] \notin DOMAIN state_map[listed.provider]
              => listed.states[i] = listed.reported[i]

\* ------------------------------------------------------------------------
\* C27: the instance total of a report is the sum of the fetched counts
\* of the accounts (providers) that synced successfully in the run; a
\* failed or skipped one adds nothing.
RECURSIVE SumOver(_, _)
SumOver(S, f) ==
    IF S = {} THEN 0
    ELSE LET x == CHOOSE y \in S : TRUE IN f[x] + SumOver(S \ {x}, f)
SyncedAccounts(r) == {a \in DOMAIN r.fetched : a \notin Failed(r)}
CountedProviders(r) == {p \in DOMAIN r.results : r.results[p].count # NoCount}
C27_TotalIsSumOfSynced ==
    /\ (sp["api"].pc = "done" /\ sp["api"].returned = "report")
          => sp["api"].instances_found =
                SumOver(SyncedAccounts(sp["api"]), [a \in SyncedAccounts(sp["api"]) |-> Len(sp["api"].fetched[a])])
    /\ rs["manual"].pc = "done"
          => /\ rs["manual"].total =
                   SumOver(CountedProviders(rs["manual"]),
                           [p \in CountedProviders(rs["manual"]) |-> rs["manual"].results[p].count])
             /\ \A p \in DOMAIN rs["manual"].results :
                   rs["manual"].results[p].error # NoError => rs["manual"].results[p].count = NoCount
\* a report over two accounts: one failed after its fetch, the other stored two instances
C27_Witness ==
    /\ sp["api"].pc = "done" /\ sp["api"].returned = "report"
    /\ Failed(sp["api"]) = {"a1"}
    /\ "a1" \in DOMAIN sp["api"].fetched /\ Len(sp["api"].fetched["a1"]) > 0
    /\ sp["api"].instances_found = 2

\* ------------------------------------------------------------------------
\* C28 (as stated): a sync-log query with limit N returns the
\* min(N, number of entries) most recently inserted entries, newest first.
NewestFirst(logs, k) == [i \in 1..k |-> logs[Len(logs) + 1 - i]]
IsLogsReply == "items" \in DOMAIN reply /\ reply.code = 200
C28_LimitReturnsNewest ==
    (IsLogsReply /\ reply.arg.kind = "int" /\ reply.arg.n >= 0)
        => reply.items = NewestFirst(reply.stored, Min2(reply.arg.n, Len(reply.stored)))
\* C28 (amended): the query returns the min(L, number of entries) most
\* recently inserted entries, newest first, where L is the limit N brought
\* into 1..500, or 100 when no limit is given.
EffectiveLimit(arg) ==
    IF arg.kind = "absent" THEN DefaultLimit
    ELSE IF arg.n < 1 THEN 1
    ELSE IF arg.n > MaxLimit THEN MaxLimit
    ELSE arg.n
C28_ClampedLimitReturnsNewest ==
    IsLogsReply
        => /\ reply.items = NewestFirst(reply.stored, Min2(EffectiveLimit(reply.arg), Len(reply.stored)))
           /\ reply.count = Len(reply.items)
\* limit 2 over a table of three rows, the newest written by a run just made
C28_Witness ==
    /\ IsLogsReply /\ reply.arg = Integer(2)
    /\ Len(reply.stored) = 3 /\ runs > 0
    /\ Len(reply.items) = 2 /\ reply.items[1].id = 3

\* ------------------------------------------------------------------------
\* C29: a failed run does not end the periodic sync: when run_sync raises,
\* the polling loop records the error and starts a later run; when the
\* scheduled job aborts, a later tick starts the job again.
C29_PeriodicSyncSurvivesFailure ==
    \A n \in 0..(MaxRuns - 1) :
        /\ (rs["polling"].pc = "raised" /\ runs = n)
              ~> (runs > n /\ POLLING_STATE.running /\ POLLING_STATE.last_error # None)
        /\ (sp["sched"].pc = "done" /\ sp["sched"].returned = "aborted" /\ runs = n)
              ~> (runs > n /\ sp["sched"].pc # "idle")
\* the polling loop is in a run that follows a run that raised
C29_Witness ==
    /\ rs["polling"].pc = "read" /\ runs = 2
    /\ POLLING_STATE.last_error # None /\ POLLING_STATE.last_run = 1

\* ------------------------------------------------------------------------
\* C30: when no sync is in flight, no account has status syncing.
C30_NoAccountLeftSyncing ==
    NoSyncInFlight => \A a \in DOMAIN accounts : accounts[a].status # "syncing"

\* ------------------------------------------------------------------------
\* C31: when no sync is in flight (every activation has ended), an account
\* with status connected has instance_count equal to the number of its
\* stored instances, and these are the list one fetch returned.
NoSyncRunning == \A p \in SyncProcs : sp[p].pc \in {"idle", "done"}
C31_CountMatchesStoredSnapshot ==
    NoSyncRunning =>
        \A a \in DOMAIN accounts :
            accounts[a].status = "connected" =>
                /\ accounts[a].instance_count = Len(instances[a])
                /\ (\A p \in Triggers : sp[p].pc = "done" /\ a \in DOMAIN sp[p].fetched)
                      => \E p \in Triggers : instances[a] = sp[p].fetched[a]

\* ------------------------------------------------------------------------
\* C32: an account that the account-update operation disabled while a
\* sync of it was in flight is disabled when that sync has finished.
Disabled(a) ==
    BagIn([event_type |-> "cloud_account.updated", accounts_synced |-> 0], audit_events)
C32_DisabledSurvivesSync ==
    \A a \in DOMAIN accounts :
        (Disabled(a) /\ \A p \in Triggers : sp[p].pc \in {"idle", "done"})
            => accounts[a].status = "disabled"

\* ------------------------------------------------------------------------
\* C33: when the sync of an account has ended in status error, the
\* instances and recommendations stored for the account are those stored
\* before the sync.
C33_ErrorLeavesStoredRows ==
    \A p \in Triggers :
        sp[p].pc = "done" =>
            \A a \in Failed(sp[p]) :
                (a \in DOMAIN accounts /\ accounts[a].status = "error") =>
                    /\ instances[a] = start.instances[a]
                    /\ recommendations[a] = start.recommendations[a]

\* ------------------------------------------------------------------------
\* C34: once every sync has ended, no instance and no recommendation is
\* stored for an account that does not exist.
C34_NoRowsOfDeletedAccount ==
    (\A p \in Triggers : sp[p].pc \in {"idle", "done"}) =>
        \A a \in AccountIds \ DOMAIN accounts :
            instances[a] = <<>> /\ recommendations[a] = <<>>

\* ========================================================================
\* Properties of the tokens (auth.py)
\* ========================================================================

\* C35: a refresh request that presents a refresh token which an earlier
\* refresh succeeded with, or which was given to a logout, is rejected as
\* revoked; and two requests that present the same token do not both
\* obtain new tokens.
C35_RefreshTokenSingleUse ==
    [][/\ \A q \in RefreshRequests :
             ( /\ refresh_requests[q].pc = "idle"
               /\ refresh_requests'[q].pc # "idle"
               /\ refresh_requests'[q].token.type = "refresh"
               /\ refresh_requests'[q].token \in used_tokens )
             => /\ refresh_requests'[q].pc = "done"
                /\ refresh_requests'[q].code = 401
                /\ refresh_requests'[q].detail = "Token has been revoked"
       /\ \A q1, q2 \in RefreshRequests :
             ( /\ refresh_requests'[q1].pc = "done" /\ refresh_requests'[q1].code = 200
               /\ refresh_requests'[q2].pc = "done" /\ refresh_requests'[q2].code = 200
               /\ refresh_requests'[q1].token = refresh_requests'[q2].token )
             => q1 = q2]_vars

\* C36: a request that authenticates with an access token that was given
\* to a logout, and that the logout has blacklisted, is rejected.
C36_LogoutInvalidatesAccess ==
    [][( /\ authenticated' # authenticated
         /\ authenticated'.token \in used_tokens \cap tokens_blacklist
         /\ authenticated'.token.type = "access" )
       => authenticated'.user = None]_vars

\* ------------------------------------------------------------------------
\* C37: in the report of POST /sync, success is true exactly when the
\* errors list is empty, and accounts_synced is the accounts_synced value
\* of the sync.completed audit event the run recorded.
C37_ReportAgreesWithAudit ==
    LET r == sp["api"]
    IN (r.pc = "done" /\ r.returned = "report") =>
          /\ r.success <=> (Len(r.errors) = 0)
          /\ r.logged = 1 =>
                BagIn([event_type |-> "sync.completed", accounts_synced |-> r.accounts_synced],
                      audit_events)

====
